---------------------------- MODULE Spec2Model ----------------------------
(***************************************************************************)
(* A model of libiccom (network-sockets build): the channel verification   *)
(* routines, the netlink-style frame encode/decode of the C API            *)
(* (iccom_send_data, iccom_receive_data and their nocopy forms) and the    *)
(* IccomSocket C++ wrapper with its outgoing and incoming buffers.         *)
(*                                                                         *)
(* Bytes are naturals 0..255, buffers are sequences of bytes (index 1 of   *)
(* the sequence is offset 0 of the C buffer).  unsigned int is 32 bit,     *)
(* int is 32 bit two's complement; the host is little endian.              *)
(***************************************************************************)
EXTENDS Integers, Sequences, FiniteSets, TLC

VARIABLES
    obj,                     \* IccomSocket object: "none" | "alive" | "thrown" | "destroyed"
    m_sock_fd,               \* IccomSocket::m_sock_fd
    m_channel,               \* IccomSocket::m_channel
    m_incoming_data,         \* IccomSocket::m_incoming_data (std::vector<char>)
    m_outgoing_data,         \* IccomSocket::m_outgoing_data (std::vector<char>)
    m_outgoing_payload_size, \* IccomSocket::m_outgoing_payload_size
    open_fds,                \* descriptors the process holds open
    ubuf,                    \* the buffer the caller gave to the most recent C API call
    uoff,                    \* the offset variable the caller gave to that call
    rx,                      \* bytes the peer has queued for our next read
    call,                    \* the most recent API call: operation, arguments, result
    io,                      \* system calls issued by the most recent API call
    accepted,                \* bytes accepted by appends since the last output reset
    appends,                 \* operator<< calls since the last output reset
    echoed,                  \* the frame the peer echoes, and the payload it was sent for
    reads,                   \* read() calls that returned data since the last send
    so_rcvtimeo              \* the SO_RCVTIMEO option (a timeval) of descriptor FIRST_FD

vars == <<obj, m_sock_fd, m_channel, m_incoming_data, m_outgoing_data,
          m_outgoing_payload_size, open_fds, ubuf, uoff, rx, call, io, accepted,
          appends, echoed, reads, so_rcvtimeo>>

sockVars == <<obj, m_sock_fd, m_channel, m_incoming_data, m_outgoing_data,
              m_outgoing_payload_size, accepted, appends>>
capiVars == <<ubuf, uoff, rx, echoed, reads, so_rcvtimeo>>

-----------------------------------------------------------------------------
(* Program constants *)

ICCOM_SOCKET_MAX_MESSAGE_SIZE_BYTES == 4096
ICCOM_MIN_CHANNEL == 0
ICCOM_MAX_CHANNEL == 32767

ICCOM_CHANNEL_AREA_PRIME == 1
ICCOM_CHANNEL_AREA_LOOPBACK == 2
ICCOM_CHANNEL_AREA_ANY == 3

\* <linux/netlink.h>: alignment unit and sizeof(struct nlmsghdr)
NLMSG_ALIGNTO == 4
SIZEOF_NLMSGHDR == 16

\* <errno.h>
E2BIG == 7
EBADF == 9
EAGAIN == 11
ENOMEM == 12
EFAULT == 14
EINVAL == 22
ENFILE == 23
EPIPE == 32
EBADE == 52
EBADFD == 77
ENOTSOCK == 88
ECONNRESET == 104

\* the first descriptor socket() can return (0, 1, 2 are the standard streams)
FIRST_FD == 3

-----------------------------------------------------------------------------
(* Integer widths.  TLC's integers are 32 bit, so a C unsigned int (and a  *)
(* size_t below 2^32) is held as the int with the same bit pattern: a      *)
(* value u < 2^31 is held as u, a value u >= 2^31 is held as u - 2^32.     *)
(* With this, the conversions unsigned -> int and int -> unsigned keep the *)
(* held number, and the unsigned operations are the ones below.            *)

INT_MAX == 2 ^ 30 + (2 ^ 30 - 1)
INT_MIN == -INT_MAX - 1

\* unsigned a + k, for 0 <= k <= INT_MAX, reduced modulo 2^32
UAdd(a, k) == IF a > INT_MAX - k THEN INT_MIN + (a - (INT_MAX - k) - 1)
                                 ELSE a + k

\* unsigned a - k, for 0 <= k <= INT_MAX, reduced modulo 2^32
USub(a, k) == IF a < INT_MIN + k THEN INT_MAX - (INT_MIN + k - a - 1)
                                 ELSE a - k

\* a / b of C on ints, for b > 0: the quotient is truncated towards zero
CDiv(a, b) ==
    IF a >= 0
    THEN a \div b
    ELSE LET m == -(a + 1)
         IN  -((m \div b) + (IF m % b = b - 1 THEN 1 ELSE 0))

\* unsigned comparisons
ULt(a, b) == IF (a < 0) = (b < 0) THEN a < b ELSE b < 0
ULe(a, b) == a = b \/ ULt(a, b)
UGe(a, b) == ULe(b, a)
UGt(a, b) == ULt(b, a)

\* the four bytes of an unsigned int in memory (little endian)
U32Bytes(v) ==
    LET w == IF v < 0 THEN v - INT_MIN ELSE v
        top == IF v < 0 THEN 2 ^ 7 ELSE 0
    IN  << w % 2 ^ 8, (w \div 2 ^ 8) % 2 ^ 8, (w \div 2 ^ 16) % 2 ^ 8,
           (w \div 2 ^ 24) + top >>

\* the unsigned int held in bytes buf[off+1 .. off+4]
U32At(buf, off) ==
    LET lo == buf[off + 1] + buf[off + 2] * 2 ^ 8 + buf[off + 3] * 2 ^ 16
        b3 == buf[off + 4]
    IN  IF b3 >= 2 ^ 7 THEN INT_MIN + (lo + (b3 - 2 ^ 7) * 2 ^ 24)
                       ELSE lo + b3 * 2 ^ 24

Zeros(n) == [i \in 1..n |-> 0]
Fill(n, b) == [i \in 1..n |-> b]

\* std::vector<char>::resize(n): cut, or grow with value-initialised chars
Resize(v, n) == IF n <= Len(v) THEN SubSeq(v, 1, n) ELSE v \o Zeros(n - Len(v))

-----------------------------------------------------------------------------
(* <linux/netlink.h> macros.  NLMSG_ALIGNTO is 4U, so the mask ~(4U-1) is  *)
(* an unsigned int: the aligned value is reduced to 32 bit, also when the  *)
(* argument is a size_t.                                                   *)

NLMSG_ALIGN(len) ==
    (UAdd(len, NLMSG_ALIGNTO - 1) \div NLMSG_ALIGNTO) * NLMSG_ALIGNTO

NLMSG_HDRLEN == NLMSG_ALIGN(SIZEOF_NLMSGHDR)

NLMSG_LENGTH(len) == UAdd(len, NLMSG_HDRLEN)

NLMSG_SPACE(len) == NLMSG_ALIGN(NLMSG_LENGTH(len))

\* NLMSG_PAYLOAD(nlh, len): unsigned 32 bit subtraction on nlh->nlmsg_len
NLMSG_PAYLOAD(nlmsg_len, len) == USub(nlmsg_len, NLMSG_SPACE(len))

iccom_get_data_payload_offset == NLMSG_LENGTH(0)

\* iccom_get_required_buffer_size without the rounding up to the alignment
iccom_get_required_buffer_size_unaligned(data_size_bytes) ==
    NLMSG_LENGTH(data_size_bytes)

iccom_get_required_buffer_size(data_size_bytes) == NLMSG_SPACE(data_size_bytes)

iccom_get_max_payload_size == ICCOM_SOCKET_MAX_MESSAGE_SIZE_BYTES

-----------------------------------------------------------------------------
(* Channel verification *)

\* iccom.h: the public check, on an int (signed comparisons)
iccom_channel_verify(channel) ==
    LET range_size == ICCOM_MAX_CHANNEL - ICCOM_MIN_CHANNEL + 1
    IN  IF channel < ICCOM_MIN_CHANNEL \/ channel > ICCOM_MAX_CHANNEL + range_size
        THEN -EINVAL ELSE 0

\* utils.c: the check against one area, on an unsigned int (unsigned
\* comparisons).  The range conditions are written with || in the source.
__iccom_channel_verify(channel, area) ==
    LET range_size == ICCOM_MAX_CHANNEL - ICCOM_MIN_CHANNEL + 1
    IN  IF /\ (UGe(channel, ICCOM_MIN_CHANNEL) \/ ULe(channel, ICCOM_MAX_CHANNEL))
           /\ (area = ICCOM_CHANNEL_AREA_PRIME \/ area = ICCOM_CHANNEL_AREA_ANY)
        THEN 0
        ELSE IF /\ (\/ UGe(channel, ICCOM_MIN_CHANNEL + range_size)
                    \/ ULe(channel, ICCOM_MAX_CHANNEL + range_size))
                /\ (area = ICCOM_CHANNEL_AREA_LOOPBACK \/ area = ICCOM_CHANNEL_AREA_ANY)
        THEN 0
        ELSE -EINVAL

-----------------------------------------------------------------------------
(* System calls.  The outcome of a call is an input of the model:          *)
(*   write: [kind |-> "full"], [kind |-> "short", n |-> k] (k bytes were   *)
(*          taken, k below the size asked), [kind |-> "err", errno |-> e]  *)
(*   read:  [kind |-> "data", bytes |-> b], [kind |-> "eof"],              *)
(*          [kind |-> "err", errno |-> e]                                  *)
(* io records the calls issued, in order.                                  *)

\* the null pointer, where a buffer is expected
NULL == << -1 >>

\* one system call: its name, the descriptor and the size it was given (-1:
\* none), the bytes it was given to write, and what it returned
Sys(name, fd, n, buf, ret) ==
    [sys |-> name, fd |-> fd, n |-> n, buf |-> buf, ret |-> ret]

SysWrite(fd, buf, wr) ==
    Sys("write", fd, Len(buf), buf,
        CASE wr.kind = "full"  -> Len(buf)
          [] wr.kind = "short" -> wr.n
          [] wr.kind = "err"   -> -1)

SysRead(fd, size, rd) ==
    Sys("read", fd, size, <<>>,
        CASE rd.kind = "data" -> Len(rd.bytes)
          [] rd.kind = "eof"  -> 0
          [] rd.kind = "err"  -> -1)

-----------------------------------------------------------------------------
(* C API: sending *)

\* iccom_send_data_nocopy with the header's length field set to
\* NLMSG_LENGTH(data_size_bytes), the header included
iccom_send_data_nocopy_nlmsg_length(sock_fd, buf, buf_size_bytes, data_offset, data_size_bytes, wr) ==
    IF buf_size_bytes # NLMSG_SPACE(data_size_bytes)
    THEN [ret |-> -EINVAL, buf |-> buf, io |-> <<>>]
    ELSE IF data_offset # NLMSG_LENGTH(0)
    THEN [ret |-> -EINVAL, buf |-> buf, io |-> <<>>]
    ELSE IF data_size_bytes > ICCOM_SOCKET_MAX_MESSAGE_SIZE_BYTES
    THEN [ret |-> -E2BIG, buf |-> buf, io |-> <<>>]
    ELSE IF data_size_bytes = 0
    THEN [ret |-> -EINVAL, buf |-> buf, io |-> <<>>]
    ELSE IF buf = NULL
    THEN [ret |-> -EINVAL, buf |-> buf, io |-> <<>>]
    ELSE
      LET hdr == U32Bytes(NLMSG_LENGTH(data_size_bytes))
                 \o Zeros(SIZEOF_NLMSGHDR - 4)
          nbuf == hdr \o SubSeq(buf, SIZEOF_NLMSGHDR + 1, Len(buf))
          w == SysWrite(sock_fd, nbuf, wr)
      IN  IF w.ret < 0
          THEN [ret |-> -wr.errno, buf |-> nbuf, io |-> <<w>>]
          ELSE IF w.ret # buf_size_bytes
          THEN [ret |-> -EPIPE, buf |-> nbuf, io |-> <<w>>]
          ELSE [ret |-> 0, buf |-> nbuf, io |-> <<w>>]

\* iccom_send_data_nocopy with the header written before the offset and the
\* data size are validated
iccom_send_data_nocopy_header_first(sock_fd, buf, buf_size_bytes, data_offset, data_size_bytes, wr) ==
    IF buf_size_bytes # NLMSG_SPACE(data_size_bytes)
    THEN [ret |-> -EINVAL, buf |-> buf, io |-> <<>>]
    ELSE IF buf = NULL
    THEN [ret |-> -EINVAL, buf |-> buf, io |-> <<>>]
    ELSE
      LET hdr == U32Bytes(data_size_bytes) \o Zeros(SIZEOF_NLMSGHDR - 4)
          nbuf == hdr \o SubSeq(buf, SIZEOF_NLMSGHDR + 1, Len(buf))
          w == SysWrite(sock_fd, nbuf, wr)
      IN  IF data_offset # NLMSG_LENGTH(0)
          THEN [ret |-> -EINVAL, buf |-> nbuf, io |-> <<>>]
          ELSE IF data_size_bytes > ICCOM_SOCKET_MAX_MESSAGE_SIZE_BYTES
          THEN [ret |-> -E2BIG, buf |-> nbuf, io |-> <<>>]
          ELSE IF data_size_bytes = 0
          THEN [ret |-> -EINVAL, buf |-> nbuf, io |-> <<>>]
          ELSE IF w.ret < 0
          THEN [ret |-> -wr.errno, buf |-> nbuf, io |-> <<w>>]
          ELSE IF w.ret # buf_size_bytes
          THEN [ret |-> -EPIPE, buf |-> nbuf, io |-> <<w>>]
          ELSE [ret |-> 0, buf |-> nbuf, io |-> <<w>>]

\* iccom_send_data_nocopy(sock_fd, buf, buf_size_bytes, data_offset,
\* data_size_bytes).  buf is the caller's buffer (or NULL), wr the outcome
\* of write().  The result is the return value, the caller's buffer after
\* the call and the system calls issued.
iccom_send_data_nocopy(sock_fd, buf, buf_size_bytes, data_offset, data_size_bytes, wr) ==
    IF buf_size_bytes # NLMSG_SPACE(data_size_bytes)
    THEN [ret |-> -EINVAL, buf |-> buf, io |-> <<>>]
    ELSE IF data_offset # NLMSG_LENGTH(0)
    THEN [ret |-> -EINVAL, buf |-> buf, io |-> <<>>]
    ELSE IF data_size_bytes > ICCOM_SOCKET_MAX_MESSAGE_SIZE_BYTES
    THEN [ret |-> -E2BIG, buf |-> buf, io |-> <<>>]
    ELSE IF data_size_bytes = 0
    THEN [ret |-> -EINVAL, buf |-> buf, io |-> <<>>]
    ELSE IF buf = NULL
    THEN [ret |-> -EINVAL, buf |-> buf, io |-> <<>>]
    ELSE
      LET \* memset(nl_msg, 0, sizeof(*nl_msg)); nl_msg->nlmsg_len = data_size_bytes
          hdr == U32Bytes(data_size_bytes) \o Zeros(SIZEOF_NLMSGHDR - 4)
          nbuf == hdr \o SubSeq(buf, SIZEOF_NLMSGHDR + 1, Len(buf))
          w == SysWrite(sock_fd, nbuf, wr)
      IN  IF w.ret < 0
          THEN [ret |-> -wr.errno, buf |-> nbuf, io |-> <<w>>]
          ELSE IF w.ret # buf_size_bytes
          THEN [ret |-> -EPIPE, buf |-> nbuf, io |-> <<w>>]
          ELSE [ret |-> 0, buf |-> nbuf, io |-> <<w>>]

\* iccom_send_data with the size limit tested by >=
iccom_send_data_limit_ge(sock_fd, data, data_size_bytes, malloc_ok, garbage, wr) ==
    IF data_size_bytes >= ICCOM_SOCKET_MAX_MESSAGE_SIZE_BYTES
    THEN [ret |-> -E2BIG, io |-> <<>>]
    ELSE IF data_size_bytes <= 0
    THEN [ret |-> -EINVAL, io |-> <<>>]
    ELSE IF data = NULL
    THEN [ret |-> -EINVAL, io |-> <<>>]
    ELSE IF ~malloc_ok
    THEN [ret |-> -ENOMEM, io |-> <<>>]
    ELSE
      LET nl_msg == Fill(NLMSG_HDRLEN, garbage) \o data
                    \o Fill(NLMSG_SPACE(data_size_bytes) - NLMSG_HDRLEN
                            - data_size_bytes, garbage)
          r == iccom_send_data_nocopy(sock_fd, nl_msg, Len(nl_msg),
                                      NLMSG_LENGTH(0), data_size_bytes, wr)
      IN  [ret |-> r.ret, io |-> r.io]

\* iccom_send_data(sock_fd, data, data_size_bytes).  data is the payload (or
\* NULL), malloc_ok whether malloc() gave a block, garbage the byte value the
\* fresh block holds (malloc() does not initialise it), wr the outcome of
\* write().
iccom_send_data(sock_fd, data, data_size_bytes, malloc_ok, garbage, wr) ==
    IF data_size_bytes > ICCOM_SOCKET_MAX_MESSAGE_SIZE_BYTES
    THEN [ret |-> -E2BIG, io |-> <<>>]
    ELSE IF data_size_bytes <= 0
    THEN [ret |-> -EINVAL, io |-> <<>>]
    ELSE IF data = NULL
    THEN [ret |-> -EINVAL, io |-> <<>>]
    ELSE
      LET nl_total_msg_size == NLMSG_SPACE(data_size_bytes)
      IN  IF ~malloc_ok
          THEN [ret |-> -ENOMEM, io |-> <<>>]
          ELSE
            LET \* memcpy(NLMSG_DATA(nl_msg), data, data_size_bytes)
                nl_msg == Fill(NLMSG_HDRLEN, garbage) \o data
                          \o Fill(nl_total_msg_size - NLMSG_HDRLEN
                                  - data_size_bytes, garbage)
                r == iccom_send_data_nocopy(sock_fd, nl_msg, nl_total_msg_size,
                                            NLMSG_LENGTH(0), data_size_bytes, wr)
            IN  [ret |-> r.ret, io |-> r.io]

-----------------------------------------------------------------------------
(* C API: receiving *)

\* iccom_receive_data_nocopy without the test of the length read against
\* the length the header declares
iccom_receive_data_nocopy_any_length(sock_fd, receive_buffer, buffer_size, has_off, off, rd) ==
    IF buffer_size <= NLMSG_SPACE(0)
    THEN [ret |-> -ENFILE, buf |-> receive_buffer, off |-> off, io |-> <<>>]
    ELSE IF ~has_off
    THEN [ret |-> -EINVAL, buf |-> receive_buffer, off |-> off, io |-> <<>>]
    ELSE
      LET r == SysRead(sock_fd, buffer_size, rd)
          len == r.ret
          \* read() stores the bytes it got at the start of the buffer
          nbuf == IF rd.kind = "data"
                  THEN rd.bytes \o SubSeq(receive_buffer, len + 1,
                                          Len(receive_buffer))
                  ELSE receive_buffer
      IN  IF len < 0
          THEN IF rd.errno = EAGAIN
               THEN [ret |-> 0, buf |-> nbuf, off |-> off, io |-> <<r>>]
               ELSE [ret |-> -rd.errno, buf |-> nbuf, off |-> off, io |-> <<r>>]
          ELSE IF len = 0
          THEN [ret |-> 0, buf |-> nbuf, off |-> off, io |-> <<r>>]
          ELSE IF len < SIZEOF_NLMSGHDR
          THEN [ret |-> -EBADE, buf |-> nbuf, off |-> off, io |-> <<r>>]
          ELSE
            LET data_size_bytes == U32At(nbuf, 0)
                nl_total_msg_size == NLMSG_SPACE(data_size_bytes)
            IN  [ret |-> data_size_bytes, buf |-> nbuf,
                 off |-> NLMSG_LENGTH(0), io |-> <<r>>]

\* iccom_receive_data_nocopy that drops a read only when it is longer than
\* the frame its header declares
iccom_receive_data_nocopy_short_frames(sock_fd, receive_buffer, buffer_size, has_off, off, rd) ==
    IF buffer_size <= NLMSG_SPACE(0)
    THEN [ret |-> -ENFILE, buf |-> receive_buffer, off |-> off, io |-> <<>>]
    ELSE IF ~has_off
    THEN [ret |-> -EINVAL, buf |-> receive_buffer, off |-> off, io |-> <<>>]
    ELSE
      LET r == SysRead(sock_fd, buffer_size, rd)
          len == r.ret
          \* read() stores the bytes it got at the start of the buffer
          nbuf == IF rd.kind = "data"
                  THEN rd.bytes \o SubSeq(receive_buffer, len + 1,
                                          Len(receive_buffer))
                  ELSE receive_buffer
      IN  IF len < 0
          THEN IF rd.errno = EAGAIN
               THEN [ret |-> 0, buf |-> nbuf, off |-> off, io |-> <<r>>]
               ELSE [ret |-> -rd.errno, buf |-> nbuf, off |-> off, io |-> <<r>>]
          ELSE IF len = 0
          THEN [ret |-> 0, buf |-> nbuf, off |-> off, io |-> <<r>>]
          ELSE IF len < SIZEOF_NLMSGHDR
          THEN [ret |-> -EBADE, buf |-> nbuf, off |-> off, io |-> <<r>>]
          ELSE
            LET data_size_bytes == U32At(nbuf, 0)
                nl_total_msg_size == NLMSG_SPACE(data_size_bytes)
            IN  IF UGt(len, nl_total_msg_size)
                THEN [ret |-> -EBADE, buf |-> nbuf, off |-> off, io |-> <<r>>]
                ELSE [ret |-> data_size_bytes, buf |-> nbuf,
                      off |-> NLMSG_LENGTH(0), io |-> <<r>>]

\* iccom_receive_data_nocopy(sock_fd, receive_buffer, buffer_size,
\* data_offset__out).  receive_buffer is the caller's buffer of buffer_size
\* bytes, has_off whether data_offset__out is non-null, off the value of the
\* variable it points to, rd the outcome of read().  The result is the return
\* value, the buffer and the offset variable after the call, and the system
\* calls issued.
iccom_receive_data_nocopy(sock_fd, receive_buffer, buffer_size, has_off, off, rd) ==
    IF buffer_size <= NLMSG_SPACE(0)
    THEN [ret |-> -ENFILE, buf |-> receive_buffer, off |-> off, io |-> <<>>]
    ELSE IF ~has_off
    THEN [ret |-> -EINVAL, buf |-> receive_buffer, off |-> off, io |-> <<>>]
    ELSE
      LET r == SysRead(sock_fd, buffer_size, rd)
          len == r.ret
          \* read() stores the bytes it got at the start of the buffer
          nbuf == IF rd.kind = "data"
                  THEN rd.bytes \o SubSeq(receive_buffer, len + 1,
                                          Len(receive_buffer))
                  ELSE receive_buffer
      IN  IF len < 0
          THEN IF rd.errno = EAGAIN
               THEN [ret |-> 0, buf |-> nbuf, off |-> off, io |-> <<r>>]
               ELSE [ret |-> -rd.errno, buf |-> nbuf, off |-> off, io |-> <<r>>]
          ELSE IF len = 0
          THEN [ret |-> 0, buf |-> nbuf, off |-> off, io |-> <<r>>]
          ELSE IF len < SIZEOF_NLMSGHDR
          THEN [ret |-> -EBADE, buf |-> nbuf, off |-> off, io |-> <<r>>]
          ELSE
            LET data_size_bytes == U32At(nbuf, 0)
                nl_total_msg_size == NLMSG_SPACE(data_size_bytes)
            IN  IF len # nl_total_msg_size
                THEN [ret |-> -EBADE, buf |-> nbuf, off |-> off, io |-> <<r>>]
                ELSE [ret |-> data_size_bytes, buf |-> nbuf,
                      off |-> NLMSG_LENGTH(0), io |-> <<r>>]

\* iccom_receive_data: an alias of iccom_receive_data_nocopy
iccom_receive_data(sock_fd, receive_buffer, buffer_size, has_off, off, rd) ==
    iccom_receive_data_nocopy(sock_fd, receive_buffer, buffer_size, has_off,
                              off, rd)

\* __iccom_receive_data_pure: the payload moved to the start of the buffer
__iccom_receive_data_pure(sock_fd, receive_buffer, buffer_size, rd) ==
    LET r == iccom_receive_data(sock_fd, receive_buffer, buffer_size, TRUE, 0,
                                rd)
    IN  IF r.ret <= 0
        THEN [ret |-> r.ret, buf |-> r.buf, io |-> r.io]
        ELSE [ret |-> r.ret,
              buf |-> SubSeq(r.buf, r.off + 1, r.off + r.ret)
                      \o SubSeq(r.buf, r.ret + 1, Len(r.buf)),
              io |-> r.io]

-----------------------------------------------------------------------------
(* C API: opening and closing the socket (network build) *)

\* the descriptor socket() returns: the lowest one not open
LowestFree(fds) ==
    CHOOSE n \in FIRST_FD..(FIRST_FD + Cardinality(fds)) :
        n \notin fds /\ \A m \in FIRST_FD..(n - 1) : m \in fds

\* the loop over the address candidates of iccom_open_socket: cands[i] says
\* whether socket() and connect() succeed on candidate i
RECURSIVE OpenCandidates(_, _, _, _)
OpenCandidates(cands, i, fds, log) ==
    IF i > Len(cands)
    THEN [ret |-> -EPIPE, fds |-> fds, io |-> log]
    ELSE IF ~cands[i].sock
    THEN OpenCandidates(cands, i + 1, fds,
                        Append(log, Sys("socket", -1, -1, <<>>, -1)))
    ELSE
      LET sock_fd == LowestFree(fds)
          s == Sys("socket", -1, -1, <<>>, sock_fd)
      IN  IF ~cands[i].conn
          THEN OpenCandidates(cands, i + 1, fds,
                   log \o << s, Sys("connect", sock_fd, -1, <<>>, -1),
                             Sys("close", sock_fd, -1, <<>>, 0) >>)
          ELSE [ret |-> sock_fd, fds |-> fds \cup {sock_fd},
                io |-> log \o << s, Sys("connect", sock_fd, -1, <<>>, 0) >>]

\* iccom_open_socket without the check of the channel
iccom_open_socket_unverified(channel, fds, env) ==
    IF ~env.gai
    THEN [ret |-> -EINVAL, fds |-> fds,
          io |-> << Sys("getaddrinfo", -1, -1, <<>>, -1) >>]
    ELSE OpenCandidates(env.cands, 1, fds,
                        << Sys("getaddrinfo", -1, -1, <<>>, 0) >>)

\* iccom_open_socket that leaves the descriptor open when connect() fails on
\* the last candidate
iccom_open_socket_leaks(channel, fds, env) ==
    IF iccom_channel_verify(channel) < 0
    THEN [ret |-> -EINVAL, fds |-> fds, io |-> <<>>]
    ELSE IF ~env.gai
    THEN [ret |-> -EINVAL, fds |-> fds,
          io |-> << Sys("getaddrinfo", -1, -1, <<>>, -1) >>]
    ELSE
      LET r == OpenCandidates(env.cands, 1, fds,
                              << Sys("getaddrinfo", -1, -1, <<>>, 0) >>)
          n == Len(r.io)
      IN  IF r.ret < 0 /\ r.io[n].sys = "close"
          THEN [ret |-> r.ret, fds |-> fds \cup {r.io[n].fd},
                io |-> SubSeq(r.io, 1, n - 1)]
          ELSE r

\* iccom_open_socket(channel): fds are the descriptors open before the call,
\* env the environment: env.gai whether getaddrinfo() succeeds, env.cands its
\* address candidates.  The channel (unsigned) is handed to
\* iccom_channel_verify as an int.
iccom_open_socket(channel, fds, env) ==
    IF iccom_channel_verify(channel) < 0
    THEN [ret |-> -EINVAL, fds |-> fds, io |-> <<>>]
    ELSE IF ~env.gai
    THEN [ret |-> -EINVAL, fds |-> fds,
          io |-> << Sys("getaddrinfo", -1, -1, <<>>, -1) >>]
    ELSE OpenCandidates(env.cands, 1, fds,
                        << Sys("getaddrinfo", -1, -1, <<>>, 0) >>)

\* iccom_close_socket(sock_fd)
iccom_close_socket(sock_fd, fds) ==
    [fds |-> fds \ {sock_fd},
     io |-> << Sys("close", sock_fd, -1, <<>>,
                   IF sock_fd \in fds THEN 0 ELSE -1) >>]

-----------------------------------------------------------------------------
(* C API: the read timeout (network build) *)

\* a struct timeval
Timeval(sec, usec) == [tv_sec |-> sec, tv_usec |-> usec]

\* the option of a fresh socket: no timeout, a read waits without bound
NoTimeout == Timeval(0, 0)

\* iccom_set_socket_read_timeout without the test of the sign of ms
iccom_set_socket_read_timeout_any_ms(sock_fd, ms, so) ==
    LET tv_sec == CDiv(ms, 1000)
        timeout == Timeval(tv_sec, (ms - tv_sec * 1000) * 1000)
        res == IF so.kind = "ok" THEN 0 ELSE -1
        call_ == Sys("setsockopt", sock_fd, -1,
                     << timeout.tv_sec, timeout.tv_usec >>, res)
    IN  IF res # 0
        THEN [ret |-> -so.errno, set |-> FALSE, timeout |-> timeout,
              io |-> << call_ >>]
        ELSE [ret |-> 0, set |-> TRUE, timeout |-> timeout, io |-> << call_ >>]

\* iccom_set_socket_read_timeout(sock_fd, ms): so is the outcome of
\* setsockopt(), [kind |-> "ok"] or [kind |-> "err", errno |-> e].  The
\* result is the return value, whether the option was set, the timeval
\* handed to setsockopt() and the system calls issued.
iccom_set_socket_read_timeout(sock_fd, ms, so) ==
    IF ms < 0
    THEN [ret |-> -EINVAL, set |-> FALSE, timeout |-> NoTimeout, io |-> <<>>]
    ELSE
      LET tv_sec == CDiv(ms, 1000)
          timeout == Timeval(tv_sec, (ms - tv_sec * 1000) * 1000)
          res == IF so.kind = "ok" THEN 0 ELSE -1
          call_ == Sys("setsockopt", sock_fd, -1,
                       << timeout.tv_sec, timeout.tv_usec >>, res)
      IN  IF res # 0
          THEN [ret |-> -so.errno, set |-> FALSE, timeout |-> timeout,
                io |-> << call_ >>]
          ELSE [ret |-> 0, set |-> TRUE, timeout |-> timeout,
                io |-> << call_ >>]

\* iccom_get_socket_read_timeout that returns the whole seconds only
iccom_get_socket_read_timeout_seconds(sock_fd, timeout, go) ==
    LET res == IF go.kind = "ok" THEN 0 ELSE -1
        call_ == Sys("getsockopt", sock_fd, -1, <<>>, res)
    IN  IF res # 0
        THEN [ret |-> -go.errno, io |-> << call_ >>]
        ELSE [ret |-> timeout.tv_sec * 1000, io |-> << call_ >>]

\* iccom_get_socket_read_timeout(sock_fd): go is the outcome of
\* getsockopt(), timeout the timeval it stores on success
iccom_get_socket_read_timeout(sock_fd, timeout, go) ==
    LET res == IF go.kind = "ok" THEN 0 ELSE -1
        call_ == Sys("getsockopt", sock_fd, -1, <<>>, res)
    IN  IF res # 0
        THEN [ret |-> -go.errno, io |-> << call_ >>]
        ELSE [ret |-> timeout.tv_sec * 1000 + CDiv(timeout.tv_usec, 1000),
              io |-> << call_ >>]

-----------------------------------------------------------------------------
(* IccomSocket (iccom.h).  m_dbg only switches printing and is left out.   *)

\* IccomSocket::reset_output(): the buffer and the payload size after it
reset_output(data) == [data |-> Resize(data, NLMSG_SPACE(0)), size |-> 0]

\* reset_input() that leaves the incoming buffer as it is
reset_input_keeps(data) == data

\* IccomSocket::reset_input(): the incoming buffer after it
reset_input(data) == Resize(data, 0)

\* IccomSocket::output_size()
output_size == m_outgoing_payload_size

\* output_free_space() that keeps one byte back
output_free_space_one_short ==
    LET max_s == iccom_get_max_payload_size
        curr_s == m_outgoing_payload_size
    IN  IF max_s > curr_s THEN max_s - curr_s - 1 ELSE 0

\* IccomSocket::output_free_space()
output_free_space ==
    LET max_s == iccom_get_max_payload_size
        curr_s == m_outgoing_payload_size
    IN  IF max_s >= curr_s THEN max_s - curr_s ELSE 0

\* IccomSocket::input_size(), of an incoming buffer
InputSizeOf(data) ==
    IF Len(data) >= NLMSG_SPACE(0) THEN NLMSG_PAYLOAD(U32At(data, 0), 0) ELSE 0

input_size == InputSizeOf(m_incoming_data)

\* IccomSocket::operator[]: the assertion it makes on idx (a size_t), and the
\* char it returns; an index past the vector's end reads out of bounds
IndexAsserted(idx) == idx >= 0 /\ ULt(idx, input_size)

IndexInBuffer(idx) == idx + NLMSG_LENGTH(0) + 1 \in 1..Len(m_incoming_data)

IndexValue(idx) == m_incoming_data[idx + NLMSG_LENGTH(0) + 1]

\* IccomSocket::is_open()
is_open == m_sock_fd >= 0

\* operator<<(char) that resizes the outgoing buffer to the unaligned length
AppendCharTo_unpadded(data, size, ch) ==
    IF size >= iccom_get_max_payload_size
    THEN [data |-> data, size |-> size]
    ELSE [data |-> Resize(Append(data, ch), NLMSG_LENGTH(size + 1)),
          size |-> size + 1]

\* operator<<(char): the outgoing buffer and payload size after it
AppendCharTo(data, size, ch) ==
    IF size >= iccom_get_max_payload_size
    THEN [data |-> data, size |-> size]
    ELSE [data |-> Resize(Append(data, ch), NLMSG_SPACE(size + 1)),
          size |-> size + 1]

\* operator<<(vector) without the test of the free space
AppendVectorTo_unchecked(data, size, v) ==
    [data |-> Resize(data \o v, NLMSG_SPACE(size + Len(v))),
     size |-> size + Len(v)]

\* operator<<(vector): the outgoing buffer and payload size after it
AppendVectorTo(data, size, v) ==
    IF size + Len(v) >= iccom_get_max_payload_size
    THEN [data |-> data, size |-> size]
    ELSE [data |-> Resize(data \o v, NLMSG_SPACE(size + Len(v))),
          size |-> size + Len(v)]

-----------------------------------------------------------------------------
(* Bounds and inputs *)

\* payload lengths 0..SmallLen are tried, beside the lengths at the limits
SmallLen == 3
\* operator<< calls between two resets of the output
MaxAppends == 3
\* address candidates getaddrinfo() returns
MaxCands == 1
\* reads of one echoed message
MaxReads == 2
\* descriptors open at once
MaxFds == 1
\* address candidates getaddrinfo() returns to a direct call of
\* iccom_open_socket
MaxApiCands == 2

\* payload bytes: b, b+1, b+2, ...
Ramp(n, b) == [i \in 1..n |-> (b + i - 1) % 2 ^ 8]

PayloadBases == {0, 65}
GarbageBytes == {0, 170}

\* payloads the C API is called with: short ones, and ones at the limit
LimitLens == {ICCOM_SOCKET_MAX_MESSAGE_SIZE_BYTES - 1,
              ICCOM_SOCKET_MAX_MESSAGE_SIZE_BYTES,
              ICCOM_SOCKET_MAX_MESSAGE_SIZE_BYTES + 1}

PayloadInputs ==
    {Ramp(n, b) : n \in 0..SmallLen, b \in PayloadBases}
    \cup {Ramp(n, 0) : n \in LimitLens}

\* channel arguments (unsigned int): the limits of both areas, their
\* neighbours, and the ends of the unsigned range (INT_MIN holds 2^31, -1
\* holds 2^32 - 1)
ChannelInputs ==
    {0, 1, 100, ICCOM_MAX_CHANNEL - 1, ICCOM_MAX_CHANNEL,
     ICCOM_MAX_CHANNEL + 1, ICCOM_MAX_CHANNEL + 2,
     2 * ICCOM_MAX_CHANNEL, 2 * ICCOM_MAX_CHANNEL + 1, 2 * ICCOM_MAX_CHANNEL + 2,
     2 * ICCOM_MAX_CHANNEL + 3, INT_MAX, INT_MIN, -1}

\* channels sockets are opened on: inside both areas, at the upper limit,
\* just above it, and the two ends of the unsigned range above it
OpenChannels ==
    {0, 100, 2 * ICCOM_MAX_CHANNEL + 1, 2 * ICCOM_MAX_CHANNEL + 2, INT_MIN, -1}

Areas == {ICCOM_CHANNEL_AREA_PRIME, ICCOM_CHANNEL_AREA_LOOPBACK,
          ICCOM_CHANNEL_AREA_ANY}

\* outcomes of write() on descriptor fd: all bytes taken, a part of them
\* taken, and the failure of a connection the peer has closed
WriteOutcomes(fd) ==
    IF fd \notin open_fds
    THEN {[kind |-> "err", errno |-> EBADF]}
    ELSE {[kind |-> "full"], [kind |-> "short", n |-> 2 * NLMSG_ALIGNTO],
          [kind |-> "err", errno |-> EPIPE]}

\* outcomes of read() without data: timeout, peer close, failure
ReadNoData(fd) ==
    IF fd \notin open_fds
    THEN {[kind |-> "err", errno |-> EBADF]}
    ELSE {[kind |-> "err", errno |-> EAGAIN], [kind |-> "eof"],
          [kind |-> "err", errno |-> ECONNRESET]}

\* outcomes of read(fd, buf, size) when the peer has queued the bytes q: all
\* of them (as many as fit), or a part
ReadQueued(fd, size, q) ==
    IF fd \notin open_fds \/ q = <<>>
    THEN {}
    ELSE {[kind |-> "data", bytes |-> SubSeq(q, 1, k)] :
            k \in {n \in {Len(q), size, 2 * NLMSG_ALIGNTO, SIZEOF_NLMSGHDR} :
                     n <= Len(q) /\ n <= size}}

\* environments of iccom_open_socket
CandLists ==
    UNION {[1..n -> [sock : BOOLEAN, conn : BOOLEAN]] : n \in 0..MaxCands}

OpenEnvs ==
    {[gai |-> FALSE, cands |-> <<>>]} \cup [gai : {TRUE}, cands : CandLists]

\* environments of a direct call of iccom_open_socket
ApiOpenEnvs ==
    {[gai |-> FALSE, cands |-> <<>>]}
    \cup [gai : {TRUE},
          cands : UNION {[1..n -> [sock : BOOLEAN, conn : BOOLEAN]] :
                           n \in 0..MaxApiCands}]

\* the frame iccom_send_data writes for payload p
FrameOf(p) ==
    iccom_send_data(FIRST_FD, p, Len(p), TRUE, 0, [kind |-> "full"]).io[1].buf

-----------------------------------------------------------------------------
(* Calls of the C API *)

NoCall == [op |-> "none", ret |-> 0]
NoEcho == [payload |-> <<>>, frame |-> <<>>]

\* the bytes a call's write() handed to the peer
Delivered(log) ==
    IF log # <<>> /\ log[1].sys = "write" /\ log[1].ret > 0
    THEN SubSeq(log[1].buf, 1, log[1].ret) ELSE <<>>

CallChannelVerifyArea ==
    /\ \E c \in ChannelInputs, a \in Areas :
         call' = [op |-> "__iccom_channel_verify", channel |-> c, area |-> a,
                  ret |-> __iccom_channel_verify(c, a)]
    /\ io' = <<>>
    /\ UNCHANGED <<sockVars, capiVars, open_fds>>

CallChannelVerify ==
    /\ \E c \in ChannelInputs :
         call' = [op |-> "iccom_channel_verify", channel |-> c,
                  ret |-> iccom_channel_verify(c)]
    /\ io' = <<>>
    /\ UNCHANGED <<sockVars, capiVars, open_fds>>

CallOpenSocket ==
    /\ Cardinality(open_fds) < MaxFds
    /\ \E c \in OpenChannels, env \in ApiOpenEnvs :
         LET r == iccom_open_socket(c, open_fds, env)
         IN  /\ call' = [op |-> "iccom_open_socket", channel |-> c,
                         ret |-> r.ret]
             /\ io' = r.io
             /\ open_fds' = r.fds
    /\ UNCHANGED <<sockVars, capiVars>>

CallCloseSocket ==
    /\ \E fd \in open_fds \ {m_sock_fd} :
         LET r == iccom_close_socket(fd, open_fds)
         IN  /\ call' = [op |-> "iccom_close_socket", fd |-> fd, ret |-> 0]
             /\ io' = r.io
             /\ open_fds' = r.fds
    /\ UNCHANGED <<sockVars, capiVars>>

CallSendData ==
    /\ rx = <<>>
    /\ \E fd \in open_fds, data \in PayloadInputs \cup {NULL},
          malloc_ok \in BOOLEAN, garbage \in GarbageBytes :
         \E size \in IF data = NULL THEN {0, SmallLen} ELSE {Len(data)},
            wr \in WriteOutcomes(fd) :
           LET r == iccom_send_data(fd, data, size, malloc_ok, garbage, wr)
           IN  /\ call' = [op |-> "iccom_send_data", size |-> size,
                           null |-> (data = NULL), ret |-> r.ret]
               /\ io' = r.io
               /\ rx' = Delivered(r.io)
               /\ echoed' = IF r.ret = 0
                            THEN [payload |-> data, frame |-> r.io[1].buf]
                            ELSE NoEcho
               /\ reads' = 0
    /\ ubuf' = <<>>
    /\ uoff' = 0
    /\ UNCHANGED <<sockVars, open_fds, so_rcvtimeo>>

\* arguments of iccom_send_data_nocopy beside the buffer laid out for a
\* payload of n bytes: the fitting ones, a null buffer, a wrong offset, and
\* data sizes the buffer does not fit
NocopyArgs(n) ==
    {[null |-> FALSE, offset |-> NLMSG_LENGTH(0), size |-> n],
     [null |-> TRUE, offset |-> NLMSG_LENGTH(0), size |-> n],
     [null |-> FALSE, offset |-> 0, size |-> n],
     [null |-> FALSE, offset |-> NLMSG_LENGTH(0), size |-> n + NLMSG_ALIGNTO],
     [null |-> FALSE, offset |-> NLMSG_LENGTH(0), size |-> 0]}

\* the caller lays out a buffer for payload p and passes its size, an offset
\* and a data size, which may or may not fit the buffer; the call record
\* keeps the buffer as it was before the call
CallSendDataNocopy ==
    /\ rx = <<>>
    /\ \E fd \in open_fds, p \in PayloadInputs :
         \E a \in NocopyArgs(Len(p)), wr \in WriteOutcomes(fd) :
           LET garbage == CHOOSE g \in GarbageBytes : g # 0
               null == a.null
               data_offset == a.offset
               data_size_bytes == a.size
               buf == Fill(NLMSG_HDRLEN, garbage) \o p
                      \o Fill(NLMSG_SPACE(Len(p)) - NLMSG_HDRLEN - Len(p), garbage)
               r == iccom_send_data_nocopy(fd, IF null THEN NULL ELSE buf,
                        Len(buf), data_offset, data_size_bytes, wr)
           IN  /\ call' = [op |-> "iccom_send_data_nocopy", size |-> data_size_bytes,
                           buf_size |-> Len(buf), offset |-> data_offset,
                           null |-> null, buf |-> buf, ret |-> r.ret]
               /\ io' = r.io
               /\ ubuf' = IF null THEN <<>> ELSE r.buf
               /\ rx' = Delivered(r.io)
               /\ echoed' = IF r.ret = 0
                            THEN [payload |-> p, frame |-> r.io[1].buf]
                            ELSE NoEcho
               /\ reads' = 0
    /\ uoff' = 0
    /\ UNCHANGED <<sockVars, open_fds, so_rcvtimeo>>

RecvBufferSizes ==
    {NLMSG_SPACE(iccom_get_max_payload_size), NLMSG_SPACE(0) - 1, NLMSG_SPACE(0),
     NLMSG_SPACE(0) + 1}

\* the caller passes a zeroed buffer of buffer_size bytes and an offset
\* variable holding 0 (or no offset variable); sent is the echoed frame and
\* its payload as they were before the call
CallReceiveDataNocopy ==
    /\ reads < MaxReads
    /\ \E fd \in open_fds, buffer_size \in RecvBufferSizes, has_off \in BOOLEAN :
         \E rd \in ReadNoData(fd) \cup ReadQueued(fd, buffer_size, rx) :
           LET r == iccom_receive_data_nocopy(fd, Zeros(buffer_size),
                        buffer_size, has_off, 0, rd)
               got == IF r.io # <<>> /\ rd.kind = "data" THEN rd.bytes ELSE <<>>
           IN  /\ call' = [op |-> "iccom_receive_data_nocopy",
                           buffer_size |-> buffer_size, has_off |-> has_off,
                           read |-> got, sent |-> echoed, ret |-> r.ret]
               /\ io' = r.io
               /\ ubuf' = r.buf
               /\ uoff' = r.off
               /\ rx' = SubSeq(rx, Len(got) + 1, Len(rx))
               /\ echoed' = IF Len(got) = Len(rx) THEN NoEcho ELSE echoed
               /\ reads' = IF got = <<>> THEN reads ELSE reads + 1
    /\ UNCHANGED <<sockVars, open_fds, so_rcvtimeo>>

-----------------------------------------------------------------------------
(* Calls of IccomSocket *)

\* bytes offered to operator<<
CharInputs == {65}
VectorInputs ==
    {Ramp(n, 97) : n \in {1, SmallLen,
                          ICCOM_SOCKET_MAX_MESSAGE_SIZE_BYTES - 1,
                          ICCOM_SOCKET_MAX_MESSAGE_SIZE_BYTES}}

\* frames and fragments the peer sends
PeerPayloads ==
    {p \in PayloadInputs : Len(p) \in 1..ICCOM_SOCKET_MAX_MESSAGE_SIZE_BYTES}
    \cup {Ramp(n, 0) : n \in {SIZEOF_NLMSGHDR - 1, SIZEOF_NLMSGHDR,
                              SIZEOF_NLMSGHDR + 1, SIZEOF_NLMSGHDR + SmallLen}}
PeerReads ==
    {[kind |-> "data", bytes |-> FrameOf(p)] : p \in PeerPayloads}
    \cup {[kind |-> "data", bytes |-> SubSeq(FrameOf(Ramp(SmallLen, 0)), 1, n)] :
            n \in {2 * NLMSG_ALIGNTO, SIZEOF_NLMSGHDR}}
    \cup {[kind |-> "data", bytes |-> FrameOf(Ramp(SmallLen, 0)) \o Zeros(NLMSG_ALIGNTO)]}

\* IccomSocket::IccomSocket(channel)
Construct ==
    /\ obj = "none"
    /\ \E channel \in OpenChannels :
         /\ m_channel' = channel
         /\ m_sock_fd' = -1
         /\ m_incoming_data' = <<>>
         /\ m_outgoing_payload_size' = 0
         /\ IF iccom_channel_verify(channel) < 0
            THEN /\ obj' = "thrown"
                 /\ m_outgoing_data' = <<>>
            ELSE /\ obj' = "alive"
                 /\ m_outgoing_data' = Resize(<<>>, NLMSG_SPACE(0))
         /\ call' = [op |-> "IccomSocket", channel |-> channel,
                     ret |-> iccom_channel_verify(channel)]
    /\ io' = <<>>
    /\ UNCHANGED <<accepted, appends, open_fds, capiVars>>

\* open() that opens the transport also when the instance is open
Open_again ==
    /\ obj = "alive"
    /\ IF FALSE
       THEN /\ call' = [op |-> "open", pre |-> m_sock_fd,
                             ret |-> m_sock_fd]
            /\ io' = <<>>
            /\ UNCHANGED <<m_sock_fd, open_fds>>
       ELSE \E env \in OpenEnvs :
              LET r == iccom_open_socket(m_channel, open_fds, env)
              IN  /\ m_sock_fd' = r.ret
                  /\ open_fds' = r.fds
                  /\ io' = r.io
                  /\ call' = [op |-> "open", pre |-> m_sock_fd,
                               ret |-> r.ret]
    /\ UNCHANGED <<obj, m_channel, m_incoming_data, m_outgoing_data,
                   m_outgoing_payload_size, accepted, appends, capiVars>>

\* open() that takes every value of m_sock_fd but -1 for an open socket
Open_unless_minus_one ==
    /\ obj = "alive"
    /\ IF m_sock_fd # -1
       THEN /\ call' = [op |-> "open", pre |-> m_sock_fd,
                             ret |-> m_sock_fd]
            /\ io' = <<>>
            /\ UNCHANGED <<m_sock_fd, open_fds>>
       ELSE \E env \in OpenEnvs :
              LET r == iccom_open_socket(m_channel, open_fds, env)
              IN  /\ m_sock_fd' = r.ret
                  /\ open_fds' = r.fds
                  /\ io' = r.io
                  /\ call' = [op |-> "open", pre |-> m_sock_fd,
                               ret |-> r.ret]
    /\ UNCHANGED <<obj, m_channel, m_incoming_data, m_outgoing_data,
                   m_outgoing_payload_size, accepted, appends, capiVars>>

\* IccomSocket::open().  The call record keeps m_sock_fd as it was before.
Open ==
    /\ obj = "alive"
    /\ IF m_sock_fd >= 0
       THEN /\ call' = [op |-> "open", pre |-> m_sock_fd,
                             ret |-> m_sock_fd]
            /\ io' = <<>>
            /\ UNCHANGED <<m_sock_fd, open_fds>>
       ELSE \E env \in OpenEnvs :
              LET r == iccom_open_socket(m_channel, open_fds, env)
              IN  /\ m_sock_fd' = r.ret
                  /\ open_fds' = r.fds
                  /\ io' = r.io
                  /\ call' = [op |-> "open", pre |-> m_sock_fd,
                               ret |-> r.ret]
    /\ UNCHANGED <<obj, m_channel, m_incoming_data, m_outgoing_data,
                   m_outgoing_payload_size, accepted, appends, capiVars>>

\* close() that also resets the outgoing message
Close_resets_output ==
    /\ obj = "alive"
    /\ IF m_sock_fd < 0
       THEN /\ io' = <<>>
            /\ UNCHANGED <<m_sock_fd, open_fds>>
       ELSE LET r == iccom_close_socket(m_sock_fd, open_fds)
            IN  /\ io' = r.io
                /\ open_fds' = r.fds
                /\ m_sock_fd' = -1
    /\ call' = [op |-> "close", ret |-> 0]
    /\ LET z == reset_output(m_outgoing_data)
       IN  /\ m_outgoing_data' = z.data
           /\ m_outgoing_payload_size' = z.size
    /\ accepted' = <<>>
    /\ appends' = 0
    /\ UNCHANGED <<obj, m_channel, m_incoming_data, capiVars>>

\* IccomSocket::close()
Close ==
    /\ obj = "alive"
    /\ IF m_sock_fd < 0
       THEN /\ io' = <<>>
            /\ UNCHANGED <<m_sock_fd, open_fds>>
       ELSE LET r == iccom_close_socket(m_sock_fd, open_fds)
            IN  /\ io' = r.io
                /\ open_fds' = r.fds
                /\ m_sock_fd' = -1
    /\ call' = [op |-> "close", ret |-> 0]
    /\ UNCHANGED <<obj, m_channel, m_incoming_data, m_outgoing_data,
                   m_outgoing_payload_size, accepted, appends, capiVars>>

\* a destructor that does not close the socket
Destroy_leaks ==
    /\ obj = "alive"
    /\ obj' = "destroyed"
    /\ io' = <<>>
    /\ call' = [op |-> "destroy", ret |-> 0]
    /\ UNCHANGED <<m_sock_fd, open_fds, m_channel, m_incoming_data,
                   m_outgoing_data, m_outgoing_payload_size, accepted, appends,
                   capiVars>>

\* IccomSocket::~IccomSocket(): close()
Destroy ==
    /\ obj = "alive"
    /\ obj' = "destroyed"
    /\ IF m_sock_fd < 0
       THEN /\ io' = <<>>
            /\ UNCHANGED <<m_sock_fd, open_fds>>
       ELSE LET r == iccom_close_socket(m_sock_fd, open_fds)
            IN  /\ io' = r.io
                /\ open_fds' = r.fds
                /\ m_sock_fd' = -1
    /\ call' = [op |-> "destroy", ret |-> 0]
    /\ UNCHANGED <<m_channel, m_incoming_data, m_outgoing_data,
                   m_outgoing_payload_size, accepted, appends, capiVars>>

\* IccomSocket::reset_output()
ResetOutput ==
    /\ obj = "alive"
    /\ LET r == reset_output(m_outgoing_data)
       IN  /\ m_outgoing_data' = r.data
           /\ m_outgoing_payload_size' = r.size
    /\ accepted' = <<>>
    /\ appends' = 0
    /\ call' = [op |-> "reset_output", ret |-> 0]
    /\ io' = <<>>
    /\ UNCHANGED <<obj, m_sock_fd, m_channel, m_incoming_data, open_fds, capiVars>>

\* IccomSocket::reset_input()
ResetInput ==
    /\ obj = "alive"
    /\ m_incoming_data' = reset_input(m_incoming_data)
    /\ call' = [op |-> "reset_input", ret |-> 0]
    /\ io' = <<>>
    /\ UNCHANGED <<obj, m_sock_fd, m_channel, m_outgoing_data,
                   m_outgoing_payload_size, accepted, appends, open_fds, capiVars>>

\* IccomSocket::operator<<(char)
AppendChar ==
    /\ obj = "alive"
    /\ appends < MaxAppends
    /\ \E ch \in CharInputs :
         LET r == AppendCharTo(m_outgoing_data, m_outgoing_payload_size, ch)
         IN  /\ m_outgoing_data' = r.data
             /\ m_outgoing_payload_size' = r.size
             /\ accepted' = IF r.size # m_outgoing_payload_size
                            THEN Append(accepted, ch) ELSE accepted
             /\ call' = [op |-> "append", form |-> "char", len |-> 1,
                         pre |-> m_outgoing_payload_size, ret |-> 0]
    /\ appends' = appends + 1
    /\ io' = <<>>
    /\ UNCHANGED <<obj, m_sock_fd, m_channel, m_incoming_data, open_fds, capiVars>>

\* IccomSocket::operator<<(vector)
AppendVector ==
    /\ obj = "alive"
    /\ appends < MaxAppends
    /\ \E v \in VectorInputs :
         LET r == AppendVectorTo(m_outgoing_data, m_outgoing_payload_size, v)
         IN  /\ m_outgoing_data' = r.data
             /\ m_outgoing_payload_size' = r.size
             /\ accepted' = IF r.size # m_outgoing_payload_size
                            THEN accepted \o v ELSE accepted
             /\ call' = [op |-> "append", form |-> "vector", len |-> Len(v),
                         pre |-> m_outgoing_payload_size, ret |-> 0]
    /\ appends' = appends + 1
    /\ io' = <<>>
    /\ UNCHANGED <<obj, m_sock_fd, m_channel, m_incoming_data, open_fds, capiVars>>

\* send() without the early return for an empty message
Send_no_empty_return ==
    /\ obj = "alive"
    /\ \E reset_message_on_success \in BOOLEAN, wr \in WriteOutcomes(m_sock_fd) :
         IF FALSE
         THEN FALSE
         ELSE LET r == iccom_send_data_nocopy(m_sock_fd, m_outgoing_data,
                           Len(m_outgoing_data), NLMSG_LENGTH(0),
                           m_outgoing_payload_size, wr)
                  z == reset_output(r.buf)
              IN  /\ call' = [op |-> "send", reset |-> reset_message_on_success,
                              pre |-> m_outgoing_payload_size, ret |-> r.ret]
                  /\ io' = r.io
                  /\ IF r.ret >= 0 /\ reset_message_on_success
                     THEN /\ m_outgoing_data' = z.data
                          /\ m_outgoing_payload_size' = z.size
                          /\ accepted' = <<>>
                          /\ appends' = 0
                     ELSE /\ m_outgoing_data' = r.buf
                          /\ UNCHANGED <<m_outgoing_payload_size, accepted,
                                         appends>>
    /\ UNCHANGED <<obj, m_sock_fd, m_channel, m_incoming_data, open_fds, capiVars>>

\* send() that resets the message on success whatever the flag says
Send_always_reset ==
    /\ obj = "alive"
    /\ \E reset_message_on_success \in BOOLEAN, wr \in WriteOutcomes(m_sock_fd) :
         IF m_outgoing_payload_size = 0
         THEN /\ call' = [op |-> "send", reset |-> reset_message_on_success,
                          pre |-> 0, ret |-> 0]
              /\ io' = <<>>
              /\ UNCHANGED <<m_outgoing_data, m_outgoing_payload_size,
                             accepted, appends>>
         ELSE LET r == iccom_send_data_nocopy(m_sock_fd, m_outgoing_data,
                           Len(m_outgoing_data), NLMSG_LENGTH(0),
                           m_outgoing_payload_size, wr)
                  z == reset_output(r.buf)
              IN  /\ call' = [op |-> "send", reset |-> reset_message_on_success,
                              pre |-> m_outgoing_payload_size, ret |-> r.ret]
                  /\ io' = r.io
                  /\ IF r.ret >= 0
                     THEN /\ m_outgoing_data' = z.data
                          /\ m_outgoing_payload_size' = z.size
                          /\ accepted' = <<>>
                          /\ appends' = 0
                     ELSE /\ m_outgoing_data' = r.buf
                          /\ UNCHANGED <<m_outgoing_payload_size, accepted,
                                         appends>>
    /\ UNCHANGED <<obj, m_sock_fd, m_channel, m_incoming_data, open_fds, capiVars>>

\* send() that resets the message without looking at the result
Send_reset_on_failure ==
    /\ obj = "alive"
    /\ \E reset_message_on_success \in BOOLEAN, wr \in WriteOutcomes(m_sock_fd) :
         IF m_outgoing_payload_size = 0
         THEN /\ call' = [op |-> "send", reset |-> reset_message_on_success,
                          pre |-> 0, ret |-> 0]
              /\ io' = <<>>
              /\ UNCHANGED <<m_outgoing_data, m_outgoing_payload_size,
                             accepted, appends>>
         ELSE LET r == iccom_send_data_nocopy(m_sock_fd, m_outgoing_data,
                           Len(m_outgoing_data), NLMSG_LENGTH(0),
                           m_outgoing_payload_size, wr)
                  z == reset_output(r.buf)
              IN  /\ call' = [op |-> "send", reset |-> reset_message_on_success,
                              pre |-> m_outgoing_payload_size, ret |-> r.ret]
                  /\ io' = r.io
                  /\ IF reset_message_on_success
                     THEN /\ m_outgoing_data' = z.data
                          /\ m_outgoing_payload_size' = z.size
                          /\ accepted' = <<>>
                          /\ appends' = 0
                     ELSE /\ m_outgoing_data' = r.buf
                          /\ UNCHANGED <<m_outgoing_payload_size, accepted,
                                         appends>>
    /\ UNCHANGED <<obj, m_sock_fd, m_channel, m_incoming_data, open_fds, capiVars>>

\* send() that returns the number of payload bytes it has sent
Send_returns_size ==
    /\ obj = "alive"
    /\ \E reset_message_on_success \in BOOLEAN, wr \in WriteOutcomes(m_sock_fd) :
         IF m_outgoing_payload_size = 0
         THEN /\ call' = [op |-> "send", reset |-> reset_message_on_success,
                          pre |-> 0, ret |-> 0]
              /\ io' = <<>>
              /\ UNCHANGED <<m_outgoing_data, m_outgoing_payload_size,
                             accepted, appends>>
         ELSE LET r == iccom_send_data_nocopy(m_sock_fd, m_outgoing_data,
                           Len(m_outgoing_data), NLMSG_LENGTH(0),
                           m_outgoing_payload_size, wr)
                  z == reset_output(r.buf)
              IN  /\ call' = [op |-> "send", reset |-> reset_message_on_success,
                              pre |-> m_outgoing_payload_size,
                              ret |-> IF r.ret = 0 THEN m_outgoing_payload_size
                                      ELSE r.ret]
                  /\ io' = r.io
                  /\ IF r.ret >= 0 /\ reset_message_on_success
                     THEN /\ m_outgoing_data' = z.data
                          /\ m_outgoing_payload_size' = z.size
                          /\ accepted' = <<>>
                          /\ appends' = 0
                     ELSE /\ m_outgoing_data' = r.buf
                          /\ UNCHANGED <<m_outgoing_payload_size, accepted,
                                         appends>>
    /\ UNCHANGED <<obj, m_sock_fd, m_channel, m_incoming_data, open_fds, capiVars>>

\* IccomSocket::send(reset_message_on_success)
Send ==
    /\ obj = "alive"
    /\ \E reset_message_on_success \in BOOLEAN, wr \in WriteOutcomes(m_sock_fd) :
         IF m_outgoing_payload_size = 0
         THEN /\ call' = [op |-> "send", reset |-> reset_message_on_success,
                          pre |-> 0, ret |-> 0]
              /\ io' = <<>>
              /\ UNCHANGED <<m_outgoing_data, m_outgoing_payload_size,
                             accepted, appends>>
         ELSE LET r == iccom_send_data_nocopy(m_sock_fd, m_outgoing_data,
                           Len(m_outgoing_data), NLMSG_LENGTH(0),
                           m_outgoing_payload_size, wr)
                  z == reset_output(r.buf)
              IN  /\ call' = [op |-> "send", reset |-> reset_message_on_success,
                              pre |-> m_outgoing_payload_size, ret |-> r.ret]
                  /\ io' = r.io
                  /\ IF r.ret >= 0 /\ reset_message_on_success
                     THEN /\ m_outgoing_data' = z.data
                          /\ m_outgoing_payload_size' = z.size
                          /\ accepted' = <<>>
                          /\ appends' = 0
                     ELSE /\ m_outgoing_data' = r.buf
                          /\ UNCHANGED <<m_outgoing_payload_size, accepted,
                                         appends>>
    /\ UNCHANGED <<obj, m_sock_fd, m_channel, m_incoming_data, open_fds, capiVars>>

\* receive() that leaves the incoming buffer as it was when the read fails
Receive_keeps_on_failure ==
    /\ obj = "alive"
    /\ \E rd \in ReadNoData(m_sock_fd)
                 \cup (IF m_sock_fd \in open_fds THEN PeerReads ELSE {}) :
         LET buf == Resize(m_incoming_data,
                           NLMSG_SPACE(iccom_get_max_payload_size))
             r == iccom_receive_data_nocopy(m_sock_fd, buf, Len(buf), TRUE, 0, rd)
         IN  /\ io' = r.io
             /\ IF r.ret <= 0
                THEN /\ m_incoming_data' = IF r.ret < 0 THEN m_incoming_data
                                          ELSE reset_input(r.buf)
                     /\ call' = [op |-> "receive", read |-> <<>>, outcome |-> rd,
                                 pre |-> Len(m_incoming_data),
                                 res |-> r.ret, ret |-> r.ret]
                ELSE IF r.off # NLMSG_LENGTH(0)
                THEN /\ m_incoming_data' = reset_input(r.buf)
                     /\ call' = [op |-> "receive", read |-> <<>>, outcome |-> rd,
                                 pre |-> Len(m_incoming_data),
                                 res |-> r.ret, ret |-> -EFAULT]
                ELSE /\ m_incoming_data' = Resize(r.buf, NLMSG_LENGTH(r.ret))
                     /\ call' = [op |-> "receive", read |-> rd.bytes, outcome |-> rd,
                                 pre |-> Len(m_incoming_data),
                                 res |-> r.ret, ret |-> r.ret]
    /\ UNCHANGED <<obj, m_sock_fd, m_channel, m_outgoing_data,
                   m_outgoing_payload_size, accepted, appends, open_fds, capiVars>>

\* IccomSocket::receive().  The call record keeps the outcome of read(), the
\* length of the incoming buffer before the call and the result res of
\* iccom_receive_data_nocopy.
Receive ==
    /\ obj = "alive"
    /\ \E rd \in ReadNoData(m_sock_fd)
                 \cup (IF m_sock_fd \in open_fds THEN PeerReads ELSE {}) :
         LET buf == Resize(m_incoming_data,
                           NLMSG_SPACE(iccom_get_max_payload_size))
             r == iccom_receive_data_nocopy(m_sock_fd, buf, Len(buf), TRUE, 0, rd)
         IN  /\ io' = r.io
             /\ IF r.ret <= 0
                THEN /\ m_incoming_data' = reset_input(r.buf)
                     /\ call' = [op |-> "receive", read |-> <<>>, outcome |-> rd,
                                 pre |-> Len(m_incoming_data),
                                 res |-> r.ret, ret |-> r.ret]
                ELSE IF r.off # NLMSG_LENGTH(0)
                THEN /\ m_incoming_data' = reset_input(r.buf)
                     /\ call' = [op |-> "receive", read |-> <<>>, outcome |-> rd,
                                 pre |-> Len(m_incoming_data),
                                 res |-> r.ret, ret |-> -EFAULT]
                ELSE /\ m_incoming_data' = Resize(r.buf, NLMSG_LENGTH(r.ret))
                     /\ call' = [op |-> "receive", read |-> rd.bytes, outcome |-> rd,
                                 pre |-> Len(m_incoming_data),
                                 res |-> r.ret, ret |-> r.ret]
    /\ UNCHANGED <<obj, m_sock_fd, m_channel, m_outgoing_data,
                   m_outgoing_payload_size, accepted, appends, open_fds, capiVars>>

-----------------------------------------------------------------------------
(* Specifications *)

\* before any object is constructed
InitNone ==
    /\ obj = "none"
    /\ m_sock_fd = -1
    /\ m_channel = 0
    /\ m_incoming_data = <<>>
    /\ m_outgoing_data = <<>>
    /\ m_outgoing_payload_size = 0
    /\ open_fds = {}
    /\ ubuf = <<>>
    /\ uoff = 0
    /\ rx = <<>>
    /\ call = NoCall
    /\ io = <<>>
    /\ accepted = <<>>
    /\ appends = 0
    /\ echoed = NoEcho
    /\ reads = 0
    /\ so_rcvtimeo = NoTimeout

\* the channel checks, the C open and close, and the construction and opening
\* of an IccomSocket on any channel
NextChannel ==
    \/ CallChannelVerifyArea
    \/ CallChannelVerify
    \/ CallOpenSocket
    \/ CallCloseSocket
    \/ Construct
    \/ Open
    \/ Close

SpecChannel == InitNone /\ [][NextChannel]_vars

\* the C API on a connected descriptor whose peer echoes what it gets
InitCodec ==
    /\ obj = "none"
    /\ m_sock_fd = -1
    /\ m_channel = 0
    /\ m_incoming_data = <<>>
    /\ m_outgoing_data = <<>>
    /\ m_outgoing_payload_size = 0
    /\ open_fds = {FIRST_FD}
    /\ ubuf = <<>>
    /\ uoff = 0
    /\ rx = <<>>
    /\ call = NoCall
    /\ io = <<>>
    /\ accepted = <<>>
    /\ appends = 0
    /\ echoed = NoEcho
    /\ reads = 0
    /\ so_rcvtimeo = NoTimeout

NextCodec ==
    \/ CallSendData
    \/ CallSendDataNocopy
    \/ CallReceiveDataNocopy

SpecCodec == InitCodec /\ [][NextCodec]_vars

\* an IccomSocket just constructed on channel 100
InitSocket ==
    /\ obj = "alive"
    /\ m_sock_fd = -1
    /\ m_channel = 100
    /\ m_incoming_data = <<>>
    /\ m_outgoing_data = Resize(<<>>, NLMSG_SPACE(0))
    /\ m_outgoing_payload_size = 0
    /\ open_fds = {}
    /\ ubuf = <<>>
    /\ uoff = 0
    /\ rx = <<>>
    /\ call = NoCall
    /\ io = <<>>
    /\ accepted = <<>>
    /\ appends = 0
    /\ echoed = NoEcho
    /\ reads = 0
    /\ so_rcvtimeo = NoTimeout

\* the outgoing side of an IccomSocket
NextOut ==
    \/ Open
    \/ AppendChar
    \/ AppendVector
    \/ ResetOutput
    \/ Send

SpecOut == InitSocket /\ [][NextOut]_vars

\* the incoming side of an IccomSocket
NextIn ==
    \/ Open
    \/ Close
    \/ Receive
    \/ ResetInput
    \/ Destroy

SpecIn == InitSocket /\ [][NextIn]_vars

-----------------------------------------------------------------------------
(* Properties *)

\* the channels of the primary area and of the loopback area
PrimeChannels == ICCOM_MIN_CHANNEL..ICCOM_MAX_CHANNEL
LoopbackChannels == (ICCOM_MAX_CHANNEL + 1)..(2 * ICCOM_MAX_CHANNEL + 1)

\* the last call was iccom_receive_data_nocopy with a buffer of
\* NLMSG_SPACE(4096) bytes and an offset variable, and its one read returned
\* exactly the bytes a successful iccom_send_data or iccom_send_data_nocopy
\* wrote
ReceivedWholeFrame ==
    /\ call.op = "iccom_receive_data_nocopy"
    /\ call.buffer_size = NLMSG_SPACE(iccom_get_max_payload_size)
    /\ call.has_off
    /\ call.sent.frame # <<>>
    /\ call.read = call.sent.frame

\* C1: frame round trip.  When one read hands iccom_receive_data_nocopy
\* (buffer of NLMSG_SPACE(4096) bytes) exactly the bytes iccom_send_data or
\* iccom_send_data_nocopy wrote for a payload of n bytes, 0 < n <= 4096, the
\* receive returns n, sets the data offset to
\* iccom_get_data_payload_offset and the n bytes at that offset are the
\* sent payload.
FrameRoundTrip ==
    ReceivedWholeFrame =>
        LET n == Len(call.sent.payload)
        IN  /\ n \in 1..iccom_get_max_payload_size
            /\ call.ret = n
            /\ uoff = iccom_get_data_payload_offset
            /\ SubSeq(ubuf, uoff + 1, uoff + n) = call.sent.payload

\* C1 witness: a payload of the maximal size made the round trip
FrameRoundTripAtMax ==
    /\ ReceivedWholeFrame
    /\ Len(call.sent.payload) = iccom_get_max_payload_size
    /\ call.ret = iccom_get_max_payload_size

\* C2: outgoing payload content.  In every state reached by appends,
\* reset_output() and send(), the output_size() bytes of the outgoing buffer
\* at the payload offset are the concatenation, in call order, of the bytes
\* the appends accepted since the last reset of the output.
OutgoingPayloadContent ==
    obj = "alive" =>
        SubSeq(m_outgoing_data, iccom_get_data_payload_offset + 1,
               iccom_get_data_payload_offset + output_size) = accepted

\* C3: append within capacity.  An append of k bytes to an output of s
\* bytes with s + k <= 4096 leaves output_size() = s + k.
AppendWithinCapacity ==
    (/\ call.op = "append"
     /\ call.pre + call.len <= iccom_get_max_payload_size)
    => output_size = call.pre + call.len

\* C4: append overflow is a no-op.  An append of k bytes to an output of s
\* bytes with s + k > 4096 leaves output_size(), the length of the outgoing
\* buffer and every byte of it unchanged.
AppendOverflowNoOp ==
    [][(/\ call'.op = "append"
        /\ appends' = appends + 1
        /\ call'.pre + call'.len > iccom_get_max_payload_size)
       => /\ m_outgoing_payload_size' = m_outgoing_payload_size
          /\ m_outgoing_data' = m_outgoing_data]_vars

\* C4 witness: operator<<(char) was called on a full output, which holds
\* 4096 accepted bytes
AppendCharOnFullOutput ==
    /\ call.op = "append"
    /\ call.form = "char"
    /\ call.pre = iccom_get_max_payload_size
    /\ output_size = iccom_get_max_payload_size
    /\ Len(accepted) = iccom_get_max_payload_size

\* C5: indexed read of the received payload.  After receive() returned
\* n > 0, for every i in 0..n-1 operator[](i) passes its assertion
\* i < input_size() and returns byte i of the payload of the frame read.
IndexedReadAfterReceive ==
    (call.op = "receive" /\ call.ret > 0) =>
        \A i \in 0..(call.ret - 1) :
            /\ IndexAsserted(i)
            /\ IndexInBuffer(i)
            /\ IndexValue(i) = call.read[NLMSG_HDRLEN + i + 1]

\* C6: input_size() matches the received length.  After receive() returned
\* n > 0 for a frame written by iccom_send_data_nocopy, input_size() = n.
InputSizeIsReceivedLength ==
    (call.op = "receive" /\ call.ret > 0) => input_size = call.ret

\* C7: channel areas are exclusive.  A channel of the primary range is
\* accepted for PRIME and rejected for LOOPBACK; a channel of the loopback
\* range is accepted for LOOPBACK and rejected for PRIME.
ChannelAreasExclusive ==
    call.op = "__iccom_channel_verify" =>
        /\ (call.channel \in PrimeChannels
            /\ call.area = ICCOM_CHANNEL_AREA_PRIME) => call.ret = 0
        /\ (call.channel \in PrimeChannels
            /\ call.area = ICCOM_CHANNEL_AREA_LOOPBACK) => call.ret < 0
        /\ (call.channel \in LoopbackChannels
            /\ call.area = ICCOM_CHANNEL_AREA_LOOPBACK) => call.ret = 0
        /\ (call.channel \in LoopbackChannels
            /\ call.area = ICCOM_CHANNEL_AREA_PRIME) => call.ret < 0

\* C8: area ANY accepts exactly the union of both ranges.  For every
\* unsigned channel c, __iccom_channel_verify(c, ANY) returns 0 iff
\* 0 <= c <= 0xFFFF, so it agrees with iccom_channel_verify(c).
AreaAnyIsUnion ==
    (call.op = "__iccom_channel_verify"
     /\ call.area = ICCOM_CHANNEL_AREA_ANY) =>
        /\ call.ret = 0 <=> call.channel \in PrimeChannels \cup LoopbackChannels
        /\ call.ret = 0 <=> iccom_channel_verify(call.channel) = 0

\* C9: open fails fast on an invalid channel.  For a channel outside
\* 0..0xFFFF iccom_open_socket returns -EINVAL without any system call,
\* and an IccomSocket given such a channel is never open.
OpenFailsFast ==
    /\ (/\ call.op = "iccom_open_socket"
        /\ call.channel \notin PrimeChannels \cup LoopbackChannels)
       => (call.ret = -EINVAL /\ io = <<>>)
    /\ (/\ obj # "none"
        /\ m_channel \notin PrimeChannels \cup LoopbackChannels)
       => ~is_open

\* C9 witness: iccom_open_socket was called on channel 0x10000 and returned
\* -EINVAL
OpenRejectedAboveLoopback ==
    /\ call.op = "iccom_open_socket"
    /\ call.channel = 2 * ICCOM_MAX_CHANNEL + 2
    /\ call.ret = -EINVAL

\* C10: encode size errors.  Every call of iccom_send_data and of
\* iccom_send_data_nocopy with a non-null buffer returns -E2BIG if and only
\* if data_size_bytes > 4096, and -EINVAL whenever data_size_bytes = 0.
EncodeSizeErrors ==
    (call.op \in {"iccom_send_data", "iccom_send_data_nocopy"} /\ ~call.null) =>
        /\ call.ret = -E2BIG <=> call.size > iccom_get_max_payload_size
        /\ call.size = 0 => call.ret = -EINVAL

\* C10 as the code has it: iccom_send_data returns -E2BIG if and only if
\* data_size_bytes > 4096; iccom_send_data_nocopy returns -E2BIG if and only
\* if data_size_bytes > 4096 and the buffer size is
\* NLMSG_SPACE(data_size_bytes) and the data offset is NLMSG_LENGTH(0); both
\* return -EINVAL whenever data_size_bytes = 0.
EncodeSizeErrorsFitting ==
    /\ call.op = "iccom_send_data" =>
          /\ call.ret = -E2BIG <=> call.size > iccom_get_max_payload_size
          /\ call.size = 0 => call.ret = -EINVAL
    /\ call.op = "iccom_send_data_nocopy" =>
          /\ call.ret = -E2BIG <=>
                /\ call.size > iccom_get_max_payload_size
                /\ call.buf_size = NLMSG_SPACE(call.size)
                /\ call.offset = NLMSG_LENGTH(0)
          /\ call.size = 0 => call.ret = -EINVAL

\* C10 witness: iccom_send_data_nocopy was given 4097 bytes in a fitting
\* buffer and returned -E2BIG
NocopyRejectedTooBig ==
    /\ call.op = "iccom_send_data_nocopy"
    /\ call.size = iccom_get_max_payload_size + 1
    /\ call.buf_size = NLMSG_SPACE(call.size)
    /\ call.offset = NLMSG_LENGTH(0)
    /\ call.ret = -E2BIG

-----------------------------------------------------------------------------
(* The frame size functions, applied to every payload size *)

\* payload sizes handed to iccom_get_required_buffer_size
SizeInputs == 0..ICCOM_SOCKET_MAX_MESSAGE_SIZE_BYTES

\* a caller about to ask for the frame size of a payload of some size
InitSizes ==
    /\ obj = "none"
    /\ m_sock_fd = -1
    /\ m_channel = 0
    /\ m_incoming_data = <<>>
    /\ m_outgoing_data = <<>>
    /\ m_outgoing_payload_size = 0
    /\ open_fds = {}
    /\ ubuf = <<>>
    /\ uoff = 0
    /\ rx = <<>>
    /\ call \in {[op |-> "none", size |-> p, ret |-> 0] : p \in SizeInputs}
    /\ io = <<>>
    /\ accepted = <<>>
    /\ appends = 0
    /\ echoed = NoEcho
    /\ reads = 0
    /\ so_rcvtimeo = NoTimeout

CallRequiredBufferSize ==
    /\ call.op = "none"
    /\ call' = [op |-> "iccom_get_required_buffer_size", size |-> call.size,
                ret |-> iccom_get_required_buffer_size(call.size)]
    /\ UNCHANGED <<sockVars, capiVars, open_fds, io>>

CallDataPayloadOffset ==
    /\ call.op = "none"
    /\ call' = [op |-> "iccom_get_data_payload_offset", size |-> call.size,
                ret |-> iccom_get_data_payload_offset]
    /\ UNCHANGED <<sockVars, capiVars, open_fds, io>>

NextSizes ==
    \/ CallRequiredBufferSize
    \/ CallDataPayloadOffset

SpecSizes == InitSizes /\ [][NextSizes]_vars

\* C11: frame size arithmetic.  For every payload size p in 0..4096,
\* iccom_get_required_buffer_size(p) is a multiple of 4, is at least 16 + p
\* and is below 16 + p + 4; iccom_get_data_payload_offset is 16 whatever p.
FrameSizeArithmetic ==
    /\ call.op = "iccom_get_required_buffer_size" =>
          /\ call.ret % NLMSG_ALIGNTO = 0
          /\ call.ret >= SIZEOF_NLMSGHDR + call.size
          /\ call.ret < SIZEOF_NLMSGHDR + call.size + NLMSG_ALIGNTO
    /\ call.op = "iccom_get_data_payload_offset" =>
          call.ret = SIZEOF_NLMSGHDR

\* C11 witness: the frame size of a 4095 byte payload, which takes one byte
\* of padding, was computed
FrameSizeOfPaddedPayload ==
    /\ call.op = "iccom_get_required_buffer_size"
    /\ call.size = ICCOM_SOCKET_MAX_MESSAGE_SIZE_BYTES - 1
    /\ call.ret = SIZEOF_NLMSGHDR + ICCOM_SOCKET_MAX_MESSAGE_SIZE_BYTES

\* C12: sending an empty buffer.  With output_size() = 0, on an open or a
\* closed socket, send() returns 0, issues no write and changes nothing.
SendEmptyDoesNothing ==
    [][(call'.op = "send" /\ m_outgoing_payload_size = 0)
       => /\ call'.ret = 0
          /\ io' = <<>>
          /\ UNCHANGED <<obj, m_sock_fd, m_channel, m_incoming_data,
                         m_outgoing_data, m_outgoing_payload_size, open_fds>>]_vars

\* C12 witness: send() on a closed socket with an empty output returned 0
SentEmptyOnClosedSocket ==
    /\ call.op = "send"
    /\ call.pre = 0
    /\ call.ret = 0
    /\ ~is_open
    /\ output_size = 0

\* the payload bytes held in an outgoing buffer of the given payload size
PayloadOf(data, size) ==
    SubSeq(data, NLMSG_LENGTH(0) + 1, NLMSG_LENGTH(0) + size)

\* the bytes a send() on the given outgoing buffer hands to a write() that
\* takes them all
FrameToSend(data, size) ==
    iccom_send_data_nocopy(FIRST_FD, data, Len(data), NLMSG_LENGTH(0), size,
                           [kind |-> "full"]).io[1].buf

\* C13: reset after a successful send.  After send(true) succeeded on a
\* non-empty output, output_size() = 0 and output_free_space() is the
\* maximal payload size; after send(false) succeeded, output_size() and the
\* payload bytes are as before the call and a repeated send(false) writes
\* the same frame again.
ResetAfterSuccessfulSend ==
    [][(call'.op = "send" /\ m_outgoing_payload_size > 0 /\ call'.ret >= 0)
       => IF call'.reset
          THEN /\ output_size' = 0
               /\ output_free_space' = iccom_get_max_payload_size
          ELSE /\ output_size' = output_size
               /\ PayloadOf(m_outgoing_data', output_size')
                    = PayloadOf(m_outgoing_data, output_size)
               /\ FrameToSend(m_outgoing_data', output_size') = io'[1].buf]_vars

\* C13 witness: send(false) succeeded on a non-empty output, which still
\* holds the message
SentAndKept ==
    /\ call.op = "send"
    /\ ~call.reset
    /\ call.ret = 0
    /\ call.pre > 0
    /\ output_size = call.pre
    /\ io # <<>>
    /\ io[1].buf = m_outgoing_data

\* C14: a failed send keeps the message.  Whenever send() returns a
\* negative code (socket not open, write error, short write), output_size()
\* and every payload byte are as before the call, whatever
\* reset_message_on_success is, and a later send writes the same frame.
FailedSendKeepsMessage ==
    [][(call'.op = "send" /\ call'.ret < 0)
       => /\ output_size' = output_size
          /\ PayloadOf(m_outgoing_data', output_size')
               = PayloadOf(m_outgoing_data, output_size)
          /\ FrameToSend(m_outgoing_data', output_size')
               = FrameToSend(m_outgoing_data, output_size)]_vars

\* C14 witness: send(true) on an open socket ended in a short write and the
\* output still holds the message
ShortWriteKeptMessage ==
    /\ call.op = "send"
    /\ call.reset
    /\ call.ret = -EPIPE
    /\ io[1].ret >= 0
    /\ is_open
    /\ call.pre > 0
    /\ output_size = call.pre

\* read() timed out (EAGAIN) or returned 0 bytes (the peer closed)
NoDataOutcome(rd) ==
    \/ rd.kind = "eof"
    \/ rd.kind = "err" /\ rd.errno = EAGAIN

\* C15: timeout and peer close are zero-length non-errors.  When read()
\* fails with EAGAIN or returns 0 bytes, iccom_receive_data_nocopy returns
\* 0 and receive() returns 0 and leaves input_size() = 0, whatever a
\* previous receive stored.
TimeoutAndCloseGiveZero ==
    (call.op = "receive" /\ io # <<>> /\ NoDataOutcome(call.outcome)) =>
        /\ call.res = 0
        /\ call.ret = 0
        /\ input_size = 0

\* C15 witness: receive() timed out while the incoming buffer held the
\* frame of a previous receive
TimedOutOverStoredMessage ==
    /\ call.op = "receive"
    /\ io # <<>>
    /\ call.outcome.kind = "err"
    /\ call.outcome.errno = EAGAIN
    /\ call.pre > NLMSG_SPACE(0)
    /\ call.ret = 0
    /\ input_size = 0

\* read() returned a header and a number of bytes that is not NLMSG_SPACE of
\* the length the header declares
LengthMismatch(rd) ==
    /\ rd.kind = "data"
    /\ Len(rd.bytes) >= SIZEOF_NLMSGHDR
    /\ Len(rd.bytes) # NLMSG_SPACE(U32At(rd.bytes, 0))

\* C16: a length mismatch drops the message.  Whenever the number of bytes
\* read differs from NLMSG_SPACE(length declared in the received header),
\* iccom_receive_data_nocopy returns a negative code, and receive() returns
\* that code and leaves input_size() = 0.
LengthMismatchDropsMessage ==
    (call.op = "receive" /\ io # <<>> /\ LengthMismatch(call.outcome)) =>
        /\ call.res < 0
        /\ call.ret = call.res
        /\ input_size = 0

\* C16 witness: a frame came with bytes beyond the length its header
\* declares and receive() returned -EBADE
OverlongFrameDropped ==
    /\ call.op = "receive"
    /\ io # <<>>
    /\ LengthMismatch(call.outcome)
    /\ Len(call.outcome.bytes) > NLMSG_SPACE(U32At(call.outcome.bytes, 0))
    /\ call.ret = -EBADE
    /\ m_incoming_data = <<>>

\* C17: open() is idempotent.  open() on an open instance returns the
\* descriptor it holds and issues no system call, and in every state the
\* instance holds at most one open descriptor.
OpenIsIdempotent ==
    /\ [](/\ Cardinality(open_fds) <= 1
          /\ is_open => open_fds = {m_sock_fd})
    /\ [][(call'.op = "open" /\ is_open)
          => /\ call'.ret = m_sock_fd
             /\ io' = <<>>
             /\ UNCHANGED <<m_sock_fd, open_fds>>]_vars

\* C17 witness: open() was called on an open instance and returned the
\* descriptor without a system call
OpenedTwice ==
    /\ call.op = "open"
    /\ io = <<>>
    /\ is_open
    /\ call.ret = m_sock_fd
    /\ open_fds = {m_sock_fd}

\* C18: handle release.  Over any sequence of open(), close() and
\* destruction, close() and the destructor pass the descriptor of an open
\* instance to iccom_close_socket once and leave the instance closed (so it
\* is not passed again), they issue no call on an instance that is closed or
\* whose open() failed, the descriptors open are always just the one the
\* instance holds, and none is open after destruction.
HandleRelease ==
    /\ [](open_fds = IF is_open THEN {m_sock_fd} ELSE {})
    /\ [](obj = "destroyed" => open_fds = {})
    /\ [][call'.op \in {"close", "destroy"}
          => IF is_open
             THEN /\ io' = << Sys("close", m_sock_fd, -1, <<>>, 0) >>
                  /\ ~is_open'
                  /\ open_fds' = {}
             ELSE /\ io' = <<>>
                  /\ UNCHANGED <<m_sock_fd, open_fds>>]_vars

\* C18 witness: an open instance was destroyed, its descriptor was closed
\* and none is left open
DestroyedWhileOpen ==
    /\ obj = "destroyed"
    /\ call.op = "destroy"
    /\ Len(io) = 1
    /\ io[1].sys = "close"
    /\ io[1].fd = FIRST_FD
    /\ open_fds = {}

\* C19: two-state lifecycle.  An IccomSocket is constructed closed; only a
\* successful open() makes is_open() true and only close() makes it false
\* again; a failed open() leaves the instance closed, and an open() on a
\* closed instance attempts the transport open, also after a failed one.
TwoStateLifecycle ==
    [][/\ (call'.op = "IccomSocket" /\ obj' = "alive") => ~is_open'
       /\ (call'.op = "open" /\ is_open) => is_open'
       /\ (call'.op = "open" /\ ~is_open)
          => /\ io' # <<>>
             /\ io'[1].sys = "getaddrinfo"
             /\ is_open' <=> call'.ret >= 0
       /\ call'.op = "close" => ~is_open'
       /\ call'.op \notin {"IccomSocket", "open", "close"}
          => is_open' = is_open]_vars

\* C19 witness: open() succeeded on an instance whose previous open() had
\* failed with -EPIPE
OpenedAfterFailedOpen ==
    /\ call.op = "open"
    /\ call.pre = -EPIPE
    /\ call.ret >= 0
    /\ is_open

-----------------------------------------------------------------------------
(* The read timeout of a connected descriptor *)

\* timeouts in ms handed to iccom_set_socket_read_timeout
TimeoutInputs ==
    {INT_MIN, -1000, -1, 0, 1, 999, 1000, 1001, 60000, INT_MAX}

\* descriptors handed to the timeout calls: the connected one and one that
\* is not open
TimeoutFds == {FIRST_FD, FIRST_FD + 1}

\* outcomes of setsockopt() and getsockopt() on descriptor fd
SockoptOutcomes(fd) ==
    IF fd \notin open_fds
    THEN {[kind |-> "err", errno |-> EBADF]}
    ELSE {[kind |-> "ok"], [kind |-> "err", errno |-> ENOTSOCK]}

CallSetReadTimeout ==
    /\ \E fd \in TimeoutFds, ms \in TimeoutInputs :
         \E so \in SockoptOutcomes(fd) :
           LET r == iccom_set_socket_read_timeout(fd, ms, so)
           IN  /\ call' = [op |-> "iccom_set_socket_read_timeout", fd |-> fd,
                           ms |-> ms, ret |-> r.ret]
               /\ io' = r.io
               /\ so_rcvtimeo' = IF r.set THEN r.timeout ELSE so_rcvtimeo
    /\ UNCHANGED <<sockVars, open_fds, ubuf, uoff, rx, echoed, reads>>

CallGetReadTimeout ==
    /\ \E fd \in TimeoutFds :
         \E go \in SockoptOutcomes(fd) :
           LET r == iccom_get_socket_read_timeout(fd, so_rcvtimeo, go)
           IN  /\ call' = [op |-> "iccom_get_socket_read_timeout", fd |-> fd,
                           ret |-> r.ret]
               /\ io' = r.io
    /\ UNCHANGED <<sockVars, capiVars, open_fds>>

NextTimeout ==
    \/ CallSetReadTimeout
    \/ CallGetReadTimeout

SpecTimeout == InitCodec /\ [][NextTimeout]_vars

\* C20: a negative timeout is rejected.  For ms < 0
\* iccom_set_socket_read_timeout returns -EINVAL without calling
\* setsockopt, so the configured timeout is unchanged; for ms >= 0 it calls
\* setsockopt and, when that succeeds, returns 0 with the timeout
\* configured, which for ms = 0 is the unbounded wait.
NegativeTimeoutRejected ==
    [][call'.op = "iccom_set_socket_read_timeout"
       => IF call'.ms < 0
          THEN /\ call'.ret = -EINVAL
               /\ io' = <<>>
               /\ so_rcvtimeo' = so_rcvtimeo
          ELSE /\ Len(io') = 1
               /\ io'[1].sys = "setsockopt"
               /\ io'[1].fd = call'.fd
               /\ io'[1].ret = 0
                  => /\ call'.ret = 0
                     /\ so_rcvtimeo' = Timeval(call'.ms \div 1000,
                                               (call'.ms % 1000) * 1000)
                     /\ call'.ms = 0 => so_rcvtimeo' = NoTimeout]_vars

\* C20 witness: a timeout of -1 ms was rejected while a timeout of 60 s was
\* configured, and that one is still configured
NegativeRejectedOverConfigured ==
    /\ call.op = "iccom_set_socket_read_timeout"
    /\ call.fd = FIRST_FD
    /\ call.ms = -1
    /\ call.ret = -EINVAL
    /\ io = <<>>
    /\ so_rcvtimeo = Timeval(60, 0)

-----------------------------------------------------------------------------
(* IccomSocket: the direct variants of send and receive *)

\* IccomSocket::send_direct(data).  The result is the return value and the
\* system calls issued; the method is const and changes no member.
send_direct(data, malloc_ok, garbage, wr) ==
    IF ~is_open
    THEN [ret |-> -EBADFD, io |-> <<>>]
    ELSE iccom_send_data(m_sock_fd, data, Len(data), malloc_ok, garbage, wr)

\* IccomSocket::receive_direct with data_out left as it is on a socket that
\* is not open
receive_direct_keeps_data_out(data_out, rd) ==
    IF ~is_open
    THEN [ret |-> -EBADFD, data_out |-> data_out, io |-> <<>>]
    ELSE
      LET buf == Resize(data_out, NLMSG_SPACE(iccom_get_max_payload_size))
          r == __iccom_receive_data_pure(m_sock_fd, buf, Len(buf), rd)
      IN  IF r.ret < 0
          THEN [ret |-> r.ret, data_out |-> Resize(r.buf, 0), io |-> r.io]
          ELSE [ret |-> r.ret, data_out |-> Resize(r.buf, r.ret), io |-> r.io]

\* IccomSocket::receive_direct without the final resize of data_out to the
\* length of the payload
receive_direct_unsized(data_out, rd) ==
    IF ~is_open
    THEN [ret |-> -EBADFD, data_out |-> Resize(data_out, 0), io |-> <<>>]
    ELSE
      LET buf == Resize(data_out, NLMSG_SPACE(iccom_get_max_payload_size))
          r == __iccom_receive_data_pure(m_sock_fd, buf, Len(buf), rd)
      IN  IF r.ret < 0
          THEN [ret |-> r.ret, data_out |-> Resize(r.buf, 0), io |-> r.io]
          ELSE [ret |-> r.ret, data_out |-> r.buf, io |-> r.io]

\* IccomSocket::receive_direct(data_out).  data_out is the caller's vector
\* before the call, rd the outcome of read().  The result is the return
\* value, the caller's vector after the call and the system calls issued.
receive_direct(data_out, rd) ==
    IF ~is_open
    THEN [ret |-> -EBADFD, data_out |-> Resize(data_out, 0), io |-> <<>>]
    ELSE
      LET buf == Resize(data_out, NLMSG_SPACE(iccom_get_max_payload_size))
          r == __iccom_receive_data_pure(m_sock_fd, buf, Len(buf), rd)
      IN  IF r.ret < 0
          THEN [ret |-> r.ret, data_out |-> Resize(r.buf, 0), io |-> r.io]
          ELSE [ret |-> r.ret, data_out |-> Resize(r.buf, r.ret), io |-> r.io]

\* vectors send_direct is called with
DirectPayloads == {Ramp(n, 65) : n \in 0..SmallLen}

\* a call of send_direct
SendDirect ==
    /\ obj = "alive"
    /\ \E data \in DirectPayloads, malloc_ok \in BOOLEAN, garbage \in GarbageBytes,
          wr \in WriteOutcomes(m_sock_fd) :
         LET r == send_direct(data, malloc_ok, garbage, wr)
         IN  /\ call' = [op |-> "send_direct", open |-> is_open,
                         size |-> Len(data), ret |-> r.ret]
             /\ io' = r.io
    /\ UNCHANGED <<sockVars, open_fds, capiVars>>

\* a call of receive_direct on the vector the caller holds in ubuf; the call
\* record keeps the outcome of read() and the vector's length before the call
ReceiveDirect ==
    /\ obj = "alive"
    /\ \E rd \in ReadNoData(m_sock_fd)
                 \cup (IF m_sock_fd \in open_fds THEN PeerReads ELSE {}) :
         LET r == receive_direct(ubuf, rd)
         IN  /\ call' = [op |-> "receive_direct", open |-> is_open,
                         outcome |-> rd, pre |-> Len(ubuf), ret |-> r.ret]
             /\ io' = r.io
             /\ ubuf' = r.data_out
    /\ UNCHANGED <<sockVars, open_fds, uoff, rx, echoed, reads, so_rcvtimeo>>

\* an IccomSocket used through the direct variants of send and receive
NextDirect ==
    \/ Open
    \/ Close
    \/ SendDirect
    \/ ReceiveDirect

SpecDirect == InitSocket /\ [][NextDirect]_vars

\* C21: on an IccomSocket that is not open, send_direct and receive_direct
\* return -EBADFD and issue no write() or read(), receive_direct leaves
\* data_out empty, and neither changes the outgoing or the incoming buffer
DirectOnClosedSocket ==
    [][(call'.op \in {"send_direct", "receive_direct"} /\ ~is_open)
       => /\ call'.ret = -EBADFD
          /\ io' = <<>>
          /\ (call'.op = "receive_direct" => ubuf' = <<>>)
          /\ m_outgoing_data' = m_outgoing_data
          /\ m_outgoing_payload_size' = m_outgoing_payload_size
          /\ m_incoming_data' = m_incoming_data]_vars

\* receive_direct refused on a closed socket, on a vector that held a
\* message before
ReceiveDirectRefused ==
    /\ call.op = "receive_direct"
    /\ ~call.open
    /\ call.pre > 0
    /\ call.ret = -EBADFD
    /\ ubuf = <<>>

\* the code iccom_send_data_nocopy returns when write() takes a part of the
\* frame
ShortWriteCode ==
    LET buf == FrameOf(Ramp(SmallLen, 0))
    IN  iccom_send_data_nocopy(FIRST_FD, buf, Len(buf), NLMSG_LENGTH(0), SmallLen,
                               [kind |-> "short", n |-> 2 * NLMSG_ALIGNTO]).ret

\* C22: a short write is distinguishable.  The code iccom_send_data_nocopy
\* returns when write() took fewer bytes than the frame differs from every
\* code it returns when write() itself failed with a system error, so no
\* call whose write() failed returns the short-write code
ShortWriteDistinguishable ==
    (/\ call.op = "iccom_send_data_nocopy"
     /\ io # <<>>
     /\ io[1].ret < 0)
    => call.ret # ShortWriteCode

\* the last call was refused by the validation of its arguments: a buffer
\* size or an offset that does not fit, a payload too large or empty, a null
\* pointer, a receive buffer too small, no offset output
ValidationFailed ==
    \/ /\ call.op = "iccom_send_data_nocopy"
       /\ \/ call.buf_size # NLMSG_SPACE(call.size)
          \/ call.offset # iccom_get_data_payload_offset
          \/ call.size > iccom_get_max_payload_size
          \/ call.size = 0
          \/ call.null
    \/ /\ call.op = "iccom_send_data"
       /\ \/ call.size > iccom_get_max_payload_size
          \/ call.size <= 0
          \/ call.null
    \/ /\ call.op = "iccom_receive_data_nocopy"
       /\ \/ call.ret = -ENFILE
          \/ ~call.has_off

\* C23: validation failures have no side effects.  Whenever
\* iccom_send_data_nocopy, iccom_send_data or iccom_receive_data_nocopy
\* refuses its arguments, it returns a negative code, no write() or read()
\* was issued and the caller's buffer holds the bytes it held before
ValidationHasNoSideEffects ==
    ValidationFailed
    => /\ call.ret < 0
       /\ io = <<>>
       /\ (call.op = "iccom_send_data_nocopy" /\ ~call.null => ubuf = call.buf)
       /\ (call.op = "iccom_receive_data_nocopy"
             => ubuf = Zeros(call.buffer_size) /\ uoff = 0)

\* iccom_send_data_nocopy refused a wrong offset on a connected socket and
\* left the caller's header bytes alone
NocopyRefusedWrongOffset ==
    /\ call.op = "iccom_send_data_nocopy"
    /\ call.offset # iccom_get_data_payload_offset
    /\ call.buf_size = NLMSG_SPACE(call.size)
    /\ call.size > 0
    /\ call.ret = -EINVAL
    /\ ubuf = call.buf
    /\ \E i \in 1..NLMSG_HDRLEN : ubuf[i] # 0

\* C24: the incoming buffer holds a whole padded frame or nothing.  After
\* receive() returned n > 0 the incoming buffer is NLMSG_SPACE(n) bytes long,
\* after any other return of receive() it is empty
IncomingBufferIsPaddedFrame ==
    call.op = "receive"
    => IF call.ret > 0
       THEN Len(m_incoming_data) = NLMSG_SPACE(call.ret)
       ELSE Len(m_incoming_data) = 0

\* C25: the outgoing buffer always has the frame size of its payload.  After
\* construction and any sequence of operator<<, reset_output(), send() and
\* open(), the outgoing buffer is NLMSG_SPACE(output_size()) bytes long, never
\* shorter than NLMSG_SPACE(0), and output_size() is at most the maximum
\* payload size
OutgoingBufferIsFrameSized ==
    obj = "alive"
    => /\ Len(m_outgoing_data) = NLMSG_SPACE(output_size)
       /\ Len(m_outgoing_data) >= NLMSG_SPACE(0)
       /\ output_size >= 0
       /\ output_size <= iccom_get_max_payload_size

\* the output was filled to the maximum payload size by an append of one
\* char, the last of several appends
OutputFilledToMax ==
    /\ call.op = "append"
    /\ call.form = "char"
    /\ output_size = iccom_get_max_payload_size
    /\ Len(m_outgoing_data) = NLMSG_SPACE(iccom_get_max_payload_size)
    /\ appends > 1

\* the payload length of the message the last call sent
SentPayloadLength == IF call.op = "send" THEN call.pre ELSE call.size

\* C26: wire frames are well formed.  In every frame IccomSocket::send(),
\* send_direct() or iccom_send_data() writes, the header's length field
\* equals the payload length, every other header byte is zero and every
\* padding byte after the payload is zero
WrittenFrameWellFormed ==
    (/\ call.op \in {"send", "send_direct", "iccom_send_data"}
     /\ io # <<>>
     /\ io[1].sys = "write")
    => LET frame == io[1].buf
           n == SentPayloadLength
       IN  /\ Len(frame) = NLMSG_SPACE(n)
           /\ U32At(frame, 0) = n
           /\ \A i \in 5..NLMSG_HDRLEN : frame[i] = 0
           /\ \A i \in (NLMSG_HDRLEN + n + 1)..Len(frame) : frame[i] = 0

\* the last call was a send() whose write() took the whole frame
SendSucceeded ==
    /\ call.op = "send"
    /\ call.pre > 0
    /\ io # <<>>
    /\ io[1].ret = Len(io[1].buf)

\* C27 as stated: send() reports the bytes sent.  When send() succeeds on a
\* buffer holding n > 0 payload bytes it returns n, and it returns 0 only
\* when nothing was buffered
SendReportsBytesSent ==
    /\ SendSucceeded => call.ret = call.pre
    /\ (call.op = "send" /\ call.ret = 0) => call.pre = 0

\* C27 amended: send() returns 0 on success.  It returns 0 exactly when
\* nothing was buffered or write() took the whole frame, it returns a
\* negative code otherwise, and it never returns a positive number
SendReportsSuccessAsZero ==
    call.op = "send"
    => /\ call.ret <= 0
       /\ call.ret = 0 <=> (call.pre = 0 \/ SendSucceeded)

\* send() put a frame of several payload bytes on the wire and returned 0
SentSeveralBytes ==
    /\ SendSucceeded
    /\ call.pre > 1
    /\ is_open
    /\ call.ret = 0

\* a step of receive() whose read() failed with an error other than the
\* timeout, on an incoming buffer that holds the frame of an earlier receive()
ReceiveFailsOverStoredMessage ==
    /\ call'.op = "receive"
    /\ call'.ret < 0
    /\ call'.outcome.kind = "err"
    /\ Len(m_incoming_data) > 0

\* C28 as stated: a failed receive keeps the previous message.  When
\* receive() fails with an I/O error after an earlier receive() stored a
\* payload, input_size() and the bytes readable through operator[] are the
\* same as before the failing call
FailedReceiveKeepsMessage ==
    [][ReceiveFailsOverStoredMessage
       => /\ input_size' = input_size
          /\ SubSeq(m_incoming_data', NLMSG_HDRLEN + 1, Len(m_incoming_data'))
               = SubSeq(m_incoming_data, NLMSG_HDRLEN + 1, Len(m_incoming_data))]_vars

\* C28 amended: a failed receive drops the previous message.  When
\* receive() fails with an I/O error after an earlier receive() stored a
\* payload, it returns the negated errno, the incoming buffer is empty and
\* input_size() is 0
FailedReceiveDropsMessage ==
    [][ReceiveFailsOverStoredMessage
       => /\ call'.ret = -call'.outcome.errno
          /\ m_incoming_data' = <<>>
          /\ input_size' = 0]_vars

\* receive() failed with a connection reset while the incoming buffer held
\* the frame of an earlier receive(), and the buffer is empty now
ResetOverStoredMessage ==
    /\ call.op = "receive"
    /\ call.outcome.kind = "err"
    /\ call.outcome.errno = ECONNRESET
    /\ call.ret = -ECONNRESET
    /\ call.pre > NLMSG_SPACE(0)
    /\ m_incoming_data = <<>>

\* read() returned one well-formed frame with a payload of n > 0 bytes
WellFormedFrame(rd) ==
    /\ rd.kind = "data"
    /\ Len(rd.bytes) > SIZEOF_NLMSGHDR
    /\ U32At(rd.bytes, 0) \in 1..iccom_get_max_payload_size
    /\ Len(rd.bytes) = NLMSG_SPACE(U32At(rd.bytes, 0))

\* the payload of a well-formed frame
FramePayload(frame) ==
    SubSeq(frame, NLMSG_HDRLEN + 1, NLMSG_HDRLEN + U32At(frame, 0))

ReceiveDirectTimedOut ==
    /\ call.op = "receive_direct"
    /\ call.open
    /\ call.outcome.kind = "err"
    /\ call.outcome.errno = EAGAIN
    /\ call.pre > 0
    /\ call.ret = 0
    /\ ubuf = <<>>

\* C30: the receive buffer size check.  iccom_receive_data_nocopy returns
\* -ENFILE if and only if buffer_size is smaller than NLMSG_SPACE(0); a
\* buffer of exactly NLMSG_SPACE(0) bytes is accepted and read() is called
ReceiveBufferSizeCheck ==
    call.op = "iccom_receive_data_nocopy"
    => /\ call.ret = -ENFILE <=> call.buffer_size < NLMSG_SPACE(0)
       /\ (call.buffer_size = NLMSG_SPACE(0) /\ call.has_off)
            => (io # <<>> /\ io[1].sys = "read")
-----------------------------------------------------------------------------
(* The C API reading what a peer has put on the stream *)

\* a header whose length field holds len, followed by body
HdrFrame(len, body) == U32Bytes(len) \o Zeros(SIZEOF_NLMSGHDR - 4) \o body

\* byte strings the peer puts on the stream: well-formed frames, a frame at
\* the maximum payload size and one above it, a header alone that declares
\* no payload, headers alone that declare lengths at the end of the 32 bit
\* range (-1 holds 2^32 - 1, -3 holds 2^32 - 3, -19 holds 2^32 - 19), frames
\* declaring INT_MAX and 2^31 bytes, a frame whose payload has the form of a
\* frame, and two frames sent back to back
WireFrames ==
    {FrameOf(Ramp(1, 65)), FrameOf(Ramp(SmallLen, 65)),
     FrameOf(Ramp(ICCOM_SOCKET_MAX_MESSAGE_SIZE_BYTES, 0)),
     HdrFrame(ICCOM_SOCKET_MAX_MESSAGE_SIZE_BYTES + 1,
              Ramp(NLMSG_ALIGN(ICCOM_SOCKET_MAX_MESSAGE_SIZE_BYTES + 1), 0)),
     HdrFrame(0, <<>>), HdrFrame(-1, <<>>), HdrFrame(-3, <<>>),
     HdrFrame(-19, <<>>),
     HdrFrame(INT_MAX, Ramp(NLMSG_ALIGNTO, 65)),
     HdrFrame(INT_MIN, Ramp(NLMSG_ALIGNTO, 65)),
     HdrFrame(NLMSG_SPACE(NLMSG_ALIGNTO),
              HdrFrame(NLMSG_ALIGNTO, Ramp(NLMSG_ALIGNTO, 65))),
     FrameOf(Ramp(1, 65)) \o FrameOf(Ramp(SmallLen, 65))}

\* the peer writes to the connection; echoed keeps the bytes in flight
PeerSends ==
    /\ rx = <<>>
    /\ \E f \in WireFrames :
         /\ rx' = f
         /\ echoed' = [payload |-> <<>>, frame |-> f]
    /\ call' = [op |-> "peer", ret |-> 0]
    /\ io' = <<>>
    /\ reads' = 0
    /\ UNCHANGED <<sockVars, open_fds, ubuf, uoff, so_rcvtimeo>>

NextWire ==
    \/ PeerSends
    \/ CallReceiveDataNocopy

SpecWire == InitCodec /\ [][NextWire]_vars

\* C31: the data offset output is written only on a non-empty success.
\* iccom_receive_data_nocopy, called with the caller's variable holding 0,
\* leaves it 0 whenever it returns 0 or a negative code, and sets it to the
\* payload offset when it returns a value > 0
OffsetWrittenOnlyOnSuccess ==
    call.op = "iccom_receive_data_nocopy"
    => IF call.ret > 0
       THEN uoff = iccom_get_data_payload_offset
       ELSE uoff = 0

\* the positions in a log of system calls of the socket() calls that gave
\* a descriptor which no later close() of the log releases
StillOpen(log) ==
    {i \in DOMAIN log :
       /\ log[i].sys = "socket"
       /\ log[i].ret >= 0
       /\ ~\E j \in DOMAIN log :
             j > i /\ log[j].sys = "close" /\ log[j].fd = log[i].ret}

\* C32: iccom_open_socket leaks no descriptor.  For any candidates and any
\* outcome of socket() and connect() on each, when it returns a negative
\* code every descriptor it created is closed and the set of open
\* descriptors is as before; when it returns fd >= 0, fd is the one created
\* descriptor still open, and it is the one of the first candidate whose
\* connect() succeeded
OpenSocketLeaksNothing ==
    [][call'.op = "iccom_open_socket"
       => IF call'.ret < 0
          THEN /\ StillOpen(io') = {}
               /\ open_fds' = open_fds
          ELSE /\ call'.ret \notin open_fds
               /\ open_fds' = open_fds \cup {call'.ret}
               /\ \E i \in DOMAIN io' :
                    /\ StillOpen(io') = {i}
                    /\ io'[i].ret = call'.ret
                    /\ io'[i + 1].sys = "connect"
                    /\ io'[i + 1].ret = 0
                    /\ \A j \in 1..i : io'[j].sys = "connect" => io'[j].ret < 0]_vars

\* iccom_open_socket failed after it had created a descriptor for every
\* candidate and connected none
OpenFailedAfterSockets ==
    /\ call.op = "iccom_open_socket"
    /\ call.ret = -EPIPE
    /\ Cardinality({i \in DOMAIN io : io[i].sys = "socket" /\ io[i].ret >= 0}) > 1
    /\ Cardinality({i \in DOMAIN io : io[i].sys = "close"}) > 1
    /\ open_fds = {}

\* iccom_open_socket connected the second candidate after connect() failed
\* on the first
OpenedSecondCandidate ==
    /\ call.op = "iccom_open_socket"
    /\ call.ret >= 0
    /\ \E i \in DOMAIN io : io[i].sys = "close"
    /\ open_fds = {call.ret}

\* C33: the timeout conversion round trip.  For every ms >= 0 the timeval
\* iccom_set_socket_read_timeout stores is tv_sec = ms / 1000 and
\* tv_usec = (ms mod 1000) * 1000, and iccom_get_socket_read_timeout
\* converts the stored timeval back to exactly ms
TimeoutRoundTrip ==
    /\ (call.op = "iccom_set_socket_read_timeout" /\ call.ret = 0)
       => /\ call.ms >= 0
          /\ so_rcvtimeo = Timeval(call.ms \div 1000, (call.ms % 1000) * 1000)
          /\ iccom_get_socket_read_timeout(call.fd, so_rcvtimeo,
                                           [kind |-> "ok"]).ret = call.ms
    /\ (call.op = "iccom_get_socket_read_timeout" /\ io[1].ret = 0)
       => /\ call.ret >= 0
          /\ so_rcvtimeo = Timeval(call.ret \div 1000, (call.ret % 1000) * 1000)

\* the largest timeout was set and read back
ReadBackLargestTimeout ==
    /\ call.op = "iccom_get_socket_read_timeout"
    /\ io[1].ret = 0
    /\ call.ret = INT_MAX
    /\ so_rcvtimeo.tv_usec > 0

\* C34: receive never delivers a malformed read.  iccom_receive_data_nocopy
\* returns n > 0 only if the read returned exactly NLMSG_SPACE(n) bytes whose
\* header length field is n; a first read that is shorter (a proper prefix)
\* or longer (bytes of the next frame) than the first frame in flight returns
\* a negative code; and once a read has left bytes of the stream in flight,
\* no later read of them returns a payload
ReceiveDeliversWholeFramesOnly ==
    call.op = "iccom_receive_data_nocopy"
    => /\ call.ret > 0
          => /\ Len(call.read) = NLMSG_SPACE(call.ret)
             /\ U32At(call.read, 0) = call.ret
       /\ (/\ reads = 1
           /\ call.read # <<>>
           /\ Len(call.sent.frame) >= SIZEOF_NLMSGHDR
           /\ Len(call.read) # NLMSG_SPACE(U32At(call.sent.frame, 0)))
          => call.ret < 0
       /\ (reads > 1 /\ call.read # <<>>) => call.ret <= 0

\* both sides of an IccomSocket: chars appended, sent and reset, messages
\* received and reset, the socket opened and closed
NextBoth ==
    \/ Open
    \/ Close
    \/ AppendChar
    \/ ResetOutput
    \/ Send
    \/ Receive
    \/ ResetInput

SpecBoth == InitSocket /\ [][NextBoth]_vars

\* C35: the two buffers are independent.  receive(), reset_input(), open()
\* and close() leave output_size() and the buffered outgoing payload bytes
\* unchanged; operator<<, reset_output(), send(), open() and close() leave
\* the incoming buffer unchanged, so buffered output survives a close() and
\* open() cycle
BufferIndependence ==
    [][/\ call'.op \in {"receive", "reset_input", "open", "close"}
          => /\ output_size' = output_size
             /\ PayloadOf(m_outgoing_data', output_size')
                  = PayloadOf(m_outgoing_data, output_size)
       /\ call'.op \in {"append", "reset_output", "send", "open", "close"}
          => /\ input_size' = input_size
             /\ m_incoming_data' = m_incoming_data]_vars

\* the socket was opened again while it held a message to send and a
\* received message, both from before it was closed
ReopenedWithBothBuffers ==
    /\ call.op = "open"
    /\ call.pre < 0
    /\ call.ret >= 0
    /\ output_size > 1
    /\ Len(m_incoming_data) > NLMSG_SPACE(0)

\* C36: free space accounting.  In every state of an IccomSocket
\* output_size() + output_free_space() is the maximum payload size, and an
\* append of one char is ignored exactly when output_free_space() is 0
FreeSpaceAccounting ==
    /\ [](obj = "alive"
          => output_size + output_free_space = iccom_get_max_payload_size)
    /\ [][(call'.op = "append" /\ call'.form = "char")
          => (output_free_space = 0 <=> output_size' = output_size)]_vars

\* a char was offered to an output filled to the maximum by a vector and a
\* char, and was ignored
CharIgnoredWithoutFreeSpace ==
    /\ call.op = "append"
    /\ call.form = "char"
    /\ call.pre = iccom_get_max_payload_size
    /\ output_size = call.pre
    /\ output_free_space = 0
    /\ appends = MaxAppends

\* C37: the char and the vector append agree.  In every state of an
\* IccomSocket, appending a byte c with operator<<(char) and appending the
\* vector of the one element c with operator<<(vector) give the same
\* output_size() and the same outgoing buffer, also when output_size() is
\* one below the maximum payload size
CharAndVectorAppendAgree ==
    obj = "alive"
    => \A c \in CharInputs :
         AppendCharTo(m_outgoing_data, m_outgoing_payload_size, c)
           = AppendVectorTo(m_outgoing_data, m_outgoing_payload_size, << c >>)

\* C38: the received length stays inside the buffer.  Whenever
\* iccom_receive_data_nocopy returns n > 0 for a buffer of buffer_size bytes,
\* payload offset + n <= NLMSG_SPACE(n) <= buffer_size, whatever 32 bit value
\* the received header declares; so with a buffer of NLMSG_SPACE(maximum
\* payload size) bytes, as receive() passes, n is at most the maximum
ReceivedLengthInsideBuffer ==
    (call.op = "iccom_receive_data_nocopy" /\ call.ret > 0)
    => /\ uoff + call.ret <= NLMSG_SPACE(call.ret)
       /\ NLMSG_SPACE(call.ret) > 0
       /\ NLMSG_SPACE(call.ret) <= call.buffer_size
       /\ call.buffer_size = NLMSG_SPACE(iccom_get_max_payload_size)
            => call.ret <= iccom_get_max_payload_size

\* a frame of the maximum payload size was received into a buffer of
\* exactly its size
ReceivedMaximumFrame ==
    /\ call.op = "iccom_receive_data_nocopy"
    /\ call.ret = iccom_get_max_payload_size
    /\ call.buffer_size = NLMSG_SPACE(call.ret)
    /\ uoff + call.ret = call.buffer_size

\* a header declaring 2^32 - 3 bytes came alone and was taken for a frame:
\* the size arithmetic wrapped, and the call returned a negative number
WrappedLengthReturnedNegative ==
    /\ call.op = "iccom_receive_data_nocopy"
    /\ call.read = HdrFrame(-3, <<>>)
    /\ call.ret = -3
=============================================================================
